---- MODULE Spec2Model ----
(***************************************************************************)
(* LLMSchema: extraction of a database schema into the unified model       *)
(* (internal/db), the exclusion filter and the library entry points        *)
(* (llmschema.go), and the multi-file / single-file renderers              *)
(* (internal/formatter).                                                   *)
(***************************************************************************)
EXTENDS Integers, Sequences, FiniteSets, TLC

VARIABLES
    backend,          \* dbType chosen by parseDatabaseURL
    catalog,          \* the database: table name -> table definition
    opts,             \* llmschema.Options: [Tables, ExcludeTables]
    pc,               \* position of the run
    connOpen,         \* the client connection is open
    tableNames,       \* result of getTableNames
    extractedTables,  \* ExtractSchema's accumulator
    described,        \* names extractTable was invoked on, in call order
    schema,           \* the *schema.Schema the run holds: [isNil, Tables]
    extracted,        \* the Schema as ExtractSchema returned it
    err,              \* the error the run ended with: [kind, table]
    outOpts,          \* llmschema.OutputOptions: [OutputDir, Writer]
    files,            \* output directory: file name -> document
    created,          \* file names in the order os.Create was called
    resolved,         \* the last call of findIncomingRelations and its result
    sink,             \* what was written to the single-file writer
    flags,            \* command line: [outputFile, outputDir, format]
    OutputFormat,     \* MultiFileFormatter.OutputFormat
    dirCreated,       \* os.MkdirAll created the output directory
    dbIO,             \* a database connection was attempted
    writeFailed,      \* a write to an output destination returned an error
    enumCol,          \* an enumerated column: [declared, columnType, parsed, EnumValues]
    closes,           \* number of Close calls on the database client
    openFiles,        \* output files created and not yet closed
    rowsOpen,         \* result sets open on the client, the innermost last
    connsDrawn,       \* connections the client has drawn at the same time
    position,         \* extractTable: [fn, col, row] of the call being executed
    partial,          \* extractTable: [flags, indexes] built so far
    ignored           \* query failures that were not returned: [table, query]

vars == <<backend, catalog, opts, pc, connOpen, tableNames, extractedTables,
          described, schema, extracted, err, outOpts, files, created, resolved, sink,
          flags, OutputFormat, dirCreated, dbIO, writeFailed, enumCol,
          closes, openFiles, rowsOpen, connsDrawn, position, partial, ignored>>

----------------------------------------------------------------------------
(* Bounds of the model *)

MaxTables == 2        \* longest Options.Tables list
MaxExclude == 2       \* longest Options.ExcludeTables list
MaxSchemaTables == 2  \* longest Schema.Tables handed directly to FormatSchema
MaxRels == 2          \* most relations of a Schema handed directly to FormatSchema
MaxEnumValues == 3    \* most literals of an enumerated type

----------------------------------------------------------------------------
(* Generic helpers *)

Range(s) == {s[i] : i \in DOMAIN s}

SeqsUpTo(S, n) == UNION {[1..k -> S] : k \in 0..n}

\* Table names of the model, listed in ascending (ORDER BY) order.
NameOrder == <<"_overview", "orders", "posts", "users">>

\* The name writeOverview gives its file; it is a legal table name as well.
OverviewName == "_overview"

\* Names of the option lists and of the tables of the catalogs of Spec.
Names == Range(NameOrder) \ {OverviewName}

Rank(n) == CHOOSE i \in DOMAIN NameOrder : NameOrder[i] = n

\* Go's string "<" on table names.
Less(a, b) == Rank(a) < Rank(b)

NoError == [kind |-> "nil", table |-> "", query |-> "", cause |-> ""]

Error(kind, table, query, cause) ==
    [kind |-> kind, table |-> table, query |-> query, cause |-> cause]

NilSchema == [isNil |-> TRUE, Tables |-> <<>>]

TableNamesOf(tables) == [i \in DOMAIN tables |-> tables[i].Name]

----------------------------------------------------------------------------
(* The database (catalog state at call time) *)

Col(name, type, notnull) == [name |-> name, type |-> type, notnull |-> notnull]

\* One column pair of a FOREIGN KEY constraint: the constraint's name, the
\* position of the pair in the constraint, the column and what it references.
FK(name, pos, col, refTable, refCol) ==
    [name |-> name, pos |-> pos, col |-> col, refTable |-> refTable, refCol |-> refCol]

\* Columns of the longest key of a catalog table
MaxKeyColumns == 2

Idx(name, cols, unique, origin) ==
    [name |-> name, cols |-> cols, unique |-> unique, origin |-> origin]

\* Definition of each table as the test schemas declare them: users(id PK,
\* username UNIQUE), orders(id PK, user_id FK -> users.id), and a table with
\* two foreign keys to the same target.
TableDef(t) ==
    CASE t = "users" ->
           [cols |-> <<Col("id", "integer", TRUE), Col("username", "text", TRUE)>>,
            pk |-> <<"id">>,
            uniques |-> << <<"username">> >>,
            fks |-> <<>>,
            indexes |-> << Idx("users_pk", <<"id">>, TRUE, "pk"),
                           Idx("users_username_key", <<"username">>, TRUE, "u") >>]
      [] t = "orders" ->
           [cols |-> <<Col("id", "integer", TRUE), Col("user_id", "integer", TRUE)>>,
            pk |-> <<"id">>,
            uniques |-> <<>>,
            fks |-> << FK("orders_user_id_fkey", 1, "user_id", "users", "id") >>,
            indexes |-> << Idx("idx_user", <<"user_id">>, FALSE, "c"),
                           Idx("orders_pk", <<"id">>, TRUE, "pk") >>]
      [] t = OverviewName ->
           [cols |-> <<Col("id", "integer", TRUE)>>,
            pk |-> <<"id">>,
            uniques |-> <<>>,
            fks |-> <<>>,
            indexes |-> << Idx("overview_pk", <<"id">>, TRUE, "pk") >>]
      [] t = "posts" ->
           [cols |-> <<Col("author_id", "integer", TRUE), Col("editor_id", "integer", FALSE),
                       Col("slug", "text", TRUE)>>,
            pk |-> <<"author_id", "slug">>,
            uniques |-> <<>>,
            fks |-> << FK("posts_author_id_fkey", 1, "author_id", "users", "id"),
                       FK("posts_editor_id_fkey", 1, "editor_id", "users", "id") >>,
            indexes |-> << Idx("posts_pk", <<"author_id", "slug">>, TRUE, "pk") >>]

\* A foreign key's referenced table exists (the backends enforce it at DDL time).
Closed(S) == \A t \in S : \A i \in DOMAIN TableDef(t).fks : TableDef(t).fks[i].refTable \in S

Catalogs == {[t \in S |-> TableDef(t)] : S \in {X \in SUBSET Names : Closed(X)}}

Backends == {"postgres", "mysql", "sqlite"}

----------------------------------------------------------------------------
(* Catalog adapters: one metadata query each, restricted to one table *)

Exists(cat, t) == t \in DOMAIN cat

\* SELECT table_name ... ORDER BY table_name
ListTables(cat) == SelectSeq(NameOrder, LAMBDA n : n \in DOMAIN cat)

\* Rows of a table, or no rows when the catalog has no such table.
Def(cat, t) ==
    IF Exists(cat, t) THEN cat[t]
    ELSE [cols |-> <<>>, pk |-> <<>>, uniques |-> <<>>, fks |-> <<>>, indexes |-> <<>>]

\* information_schema: the column takes part in a UNIQUE constraint of the table.
InUniqueConstraint(d, c) == \E i \in DOMAIN d.uniques : c \in Range(d.uniques[i])

\* SQLite isColumnUnique: not a primary-key column, and some unique index of
\* index_list has exactly this column in index_info.
isColumnUnique(d, c, pkColumns) ==
    /\ c \notin Range(pkColumns)
    /\ \E i \in DOMAIN d.indexes : d.indexes[i].unique /\ d.indexes[i].cols = <<c>>

\* PRAGMA table_info rows with pk > 0, in column order.
PkOfTableInfo(d) ==
    LET pkCols == SelectSeq(d.cols, LAMBDA c : c.name \in Range(d.pk))
    IN  [i \in DOMAIN pkCols |-> pkCols[i].name]

extractColumns(b, cat, t) ==
    LET d == Def(cat, t)
    IN  [i \in DOMAIN d.cols |->
            [Name |-> d.cols[i].name,
             Type |-> d.cols[i].type,
             Nullable |-> ~d.cols[i].notnull,
             IsUnique |-> IF b = "sqlite"
                          THEN isColumnUnique(d, d.cols[i].name, PkOfTableInfo(d))
                          ELSE InUniqueConstraint(d, d.cols[i].name)]]

\* Variant: the key query is not restricted to the table.
extractPrimaryKeyAnyTable(b, cat, t) ==
    LET pks == [i \in DOMAIN NameOrder |-> Def(cat, NameOrder[i]).pk]
    IN  pks[1] \o pks[2] \o pks[3] \o pks[4]

extractPrimaryKey(b, cat, t) ==
    IF b = "sqlite" THEN PkOfTableInfo(Def(cat, t)) ELSE Def(cat, t).pk

RECURSIVE Flatten(_)
Flatten(seqs) == IF Len(seqs) = 0 THEN <<>> ELSE Head(seqs) \o Flatten(Tail(seqs))

\* information_schema.key_column_usage and constraint_column_usage rows of the
\* schema that carry the constraint name: both views are joined to
\* table_constraints on constraint_name and table_schema only.
RowsOfConstraint(cat, name) ==
    Flatten([i \in DOMAIN ListTables(cat) |->
                SelectSeq(cat[ListTables(cat)[i]].fks, LAMBDA f : f.name = name)])

\* table_constraints rows of the table with constraint_type = 'FOREIGN KEY':
\* one per constraint.
ForeignKeyConstraints(d) ==
    LET first == SelectSeq([i \in DOMAIN d.fks |-> i],
                           LAMBDA i : \A j \in 1..(i - 1) : d.fks[j].name # d.fks[i].name)
    IN  [k \in DOMAIN first |-> d.fks[first[k]].name]

\* PostgreSQL extractRelations: tc JOIN kcu JOIN ccu ... ORDER BY kcu.ordinal_position
\* (rows of equal position are kept in join order).
JoinedRelationRows(cat, d) ==
    LET tc == ForeignKeyConstraints(d)
        joined == Flatten([n \in DOMAIN tc |->
                     LET rows == RowsOfConstraint(cat, tc[n])
                     IN  Flatten([k \in DOMAIN rows |->
                            [c \in DOMAIN rows |->
                                [pos |-> rows[k].pos, col |-> rows[k].col,
                                 refTable |-> rows[c].refTable, refCol |-> rows[c].refCol]]])])
    IN  Flatten([p \in 1..MaxKeyColumns |-> SelectSeq(joined, LAMBDA r : r.pos = p)])

\* MySQL: key_column_usage rows of the table with a referenced table; SQLite:
\* PRAGMA foreign_key_list rows. Both carry the column pair itself.
extractRelations(b, cat, t) ==
    LET d == Def(cat, t)
        rows == IF b = "postgres" THEN JoinedRelationRows(cat, d) ELSE d.fks
    IN  [i \in DOMAIN rows |->
            [TargetTable |-> rows[i].refTable,
             TargetColumn |-> rows[i].refCol,
             SourceColumn |-> rows[i].col,
             Cardinality |-> "N:1"]]

\* PostgreSQL: NOT indisprimary; MySQL: index_name != 'PRIMARY'; SQLite: names
\* with the prefix sqlite_autoindex (constraint-backed indexes) are skipped.
extractIndexes(b, cat, t) ==
    LET d == Def(cat, t)
        kept == SelectSeq(d.indexes,
                  LAMBDA x : IF b = "sqlite" THEN x.origin = "c" ELSE x.origin # "pk")
    IN  [i \in DOMAIN kept |->
            [Name |-> kept[i].name, Columns |-> kept[i].cols, IsUnique |-> kept[i].unique]]

extractTable(b, cat, t) ==
    [Name |-> t,
     Columns |-> extractColumns(b, cat, t),
     PrimaryKey |-> extractPrimaryKey(b, cat, t),
     Relations |-> extractRelations(b, cat, t),
     Indexes |-> extractIndexes(b, cat, t)]


\* Variant: requested names are checked against the catalog.
getTableNamesExisting(cat, requestedTables) ==
    IF Len(requestedTables) > 0
    THEN SelectSeq(requestedTables, LAMBDA n : n \in DOMAIN cat)
    ELSE ListTables(cat)

\* Variant: the requested names are listed in catalog order.
getTableNamesSorted(cat, requestedTables) ==
    IF Len(requestedTables) > 0
    THEN SelectSeq(NameOrder, LAMBDA n : n \in Range(requestedTables))
    ELSE ListTables(cat)

getTableNames(cat, requestedTables) ==
    IF Len(requestedTables) > 0 THEN requestedTables ELSE ListTables(cat)

\* The metadata queries of extractTable that return an error to ExtractSchema
\* when they fail.
QueryPoints(b, cat, t) ==
    {"columns", "primary key", "relations", "indexes"}
    \cup (IF b = "sqlite" /\ \E i \in DOMAIN Def(cat, t).cols :
                                Def(cat, t).cols[i].name \notin Range(Def(cat, t).pk)
          THEN {"index_list"} ELSE {})

\* SQLite isColumnUnique calls Close on the nil rows of a failed index_info query:
\* possible when a unique index is listed for a table with a non-key column.
NilRowsClosePossible(b, cat, t) ==
    /\ b = "sqlite"
    /\ "index_list" \in QueryPoints(b, cat, t)
    /\ \E i \in DOMAIN Def(cat, t).indexes : Def(cat, t).indexes[i].unique

Causes == {"query failed", "context canceled"}

----------------------------------------------------------------------------
(* llmschema.go *)

RECURSIVE FilterLoop(_, _, _, _)
\* The loop of filterExcludedTables: append every table not in excludeSet.
FilterLoop(tables, excludeSet, i, filteredTables) ==
    IF i > Len(tables) THEN filteredTables
    ELSE FilterLoop(tables, excludeSet, i + 1,
                    IF tables[i].Name \notin excludeSet
                    THEN Append(filteredTables, tables[i])
                    ELSE filteredTables)

\* Variant: the membership test is inverted.
filterExcludedTablesInverted(tables, excludeList) ==
    IF Len(excludeList) = 0 THEN tables
    ELSE SelectSeq(tables, LAMBDA t : t.Name \in Range(excludeList))

RECURSIVE RemoveFirst(_, _)
\* Variant: every entry of the list removes one table of that name.
RemoveFirst(tables, name) ==
    IF Len(tables) = 0 THEN <<>>
    ELSE IF Head(tables).Name = name THEN Tail(tables)
    ELSE <<Head(tables)>> \o RemoveFirst(Tail(tables), name)

RECURSIVE filterExcludedTablesOncePerEntry(_, _)
filterExcludedTablesOncePerEntry(tables, excludeList) ==
    IF Len(excludeList) = 0 THEN tables
    ELSE filterExcludedTablesOncePerEntry(RemoveFirst(tables, Head(excludeList)),
                                          Tail(excludeList))

\* Variant: the relations to excluded tables are removed with the tables.
filterExcludedTablesAndRelations(tables, excludeList) ==
    IF Len(excludeList) = 0 THEN tables
    ELSE LET kept == FilterLoop(tables, Range(excludeList), 1, <<>>)
         IN  [i \in DOMAIN kept |->
                [kept[i] EXCEPT !.Relations =
                    SelectSeq(kept[i].Relations,
                              LAMBDA r : r.TargetTable \notin Range(excludeList))]]

filterExcludedTables(tables, excludeList) ==
    IF Len(excludeList) = 0 THEN tables
    ELSE FilterLoop(tables, Range(excludeList), 1, <<>>)

\* Variant: ExtractSchema applies the exclusions itself.
ExtractSchemaResultExcluding(o, tables) ==
    [isNil |-> FALSE, Tables |-> filterExcludedTables(tables, o.ExcludeTables)]

\* ExtractSchema hands opts.Tables to the extractor and returns its Schema.
ExtractSchemaResult(o, tables) == [isNil |-> FALSE, Tables |-> tables]

\* Variant: an explicit Tables list switches the exclusions off.
ApplyExclusionsUnlessTables(o, tables) ==
    IF Len(o.ExcludeTables) > 0 /\ Len(o.Tables) = 0
    THEN filterExcludedTables(tables, o.ExcludeTables)
    ELSE tables

\* ExtractAndFormat: "Apply exclusions".
ApplyExclusionsResult(o, tables) ==
    IF Len(o.ExcludeTables) > 0 THEN filterExcludedTables(tables, o.ExcludeTables)
    ELSE tables

----------------------------------------------------------------------------
(* internal/formatter: documents are sequences of lines, a line is the      *)
(* sequence of the pieces its format string concatenates                    *)

\* The arrow U+2192 of the format strings.
Arrow == " -> "

Line(section, text) == [section |-> section, text |-> text]

RECURSIVE Join(_, _)
\* strings.Join(parts, sep), as the sequence of its pieces
Join(parts, sep) ==
    IF Len(parts) = 0 THEN <<>>
    ELSE IF Len(parts) = 1 THEN <<parts[1]>>
    ELSE <<parts[1], sep>> \o Join(Tail(parts), sep)

FormatCardinalityVerbatim(cardinality, sourceTable, targetTable) == <<cardinality>>

FormatCardinality(cardinality, sourceTable, targetTable) ==
    CASE cardinality = "N:1" -> <<"many ", sourceTable, " to one ", targetTable>>
      [] cardinality = "1:N" -> <<"one ", sourceTable, " to many ", targetTable>>
      [] cardinality = "1:1" -> <<"one ", sourceTable, " to one ", targetTable>>
      [] OTHER -> <<cardinality>>

getFileExtension(format) == IF format = "markdown" THEN ".md" ELSE ".txt"

\* filepath.Join(OutputDir, name + ext): the name and the extension
FileName(name, format) == <<name, getFileExtension(format)>>

IncomingRelation(table, rel) ==
    [SourceTable |-> table.Name,
     SourceColumn |-> rel.SourceColumn,
     TargetTable |-> rel.TargetTable,
     TargetColumn |-> rel.TargetColumn,
     Cardinality |-> rel.Cardinality]

RECURSIVE IncomingLoop(_, _, _, _, _)
\* The nested loops of findIncomingRelations: table i, relation j.
IncomingLoop(tableName, tables, i, j, incoming) ==
    IF i > Len(tables) THEN incoming
    ELSE IF j > Len(tables[i].Relations)
         THEN IncomingLoop(tableName, tables, i + 1, 1, incoming)
         ELSE IncomingLoop(tableName, tables, i, j + 1,
                  IF tables[i].Relations[j].TargetTable = tableName
                  THEN Append(incoming, IncomingRelation(tables[i], tables[i].Relations[j]))
                  ELSE incoming)

\* Variant: the scan stops at the first match.
findIncomingRelationsFirstMatch(tableName, tables) ==
    LET all == IncomingLoop(tableName, tables, 1, 1, <<>>)
    IN  IF Len(all) = 0 THEN all ELSE <<all[1]>>

findIncomingRelations(tableName, tables) == IncomingLoop(tableName, tables, 1, 1, <<>>)

formatCompactConstraints(col, primaryKey) ==
    Join((IF col.Name \in Range(primaryKey) THEN <<"PK">> ELSE <<>>)
         \o (IF col.IsUnique THEN <<"UNIQUE">> ELSE <<>>)
         \o (IF ~col.Nullable THEN <<"NOT NULL">> ELSE <<>>), ", ")

MultiColumnLine(col, primaryKey) ==
    LET constraintStr == formatCompactConstraints(col, primaryKey)
    IN  Line("Columns",
             IF constraintStr # <<>>
             THEN <<"- **", col.Name, ":** ", col.Type, ", ">> \o constraintStr
             ELSE <<"- **", col.Name, ":** ", col.Type>>)

MultiReferenceLine(rel) ==
    Line("References",
         <<"- ", rel.SourceColumn, Arrow, rel.TargetTable, ".", rel.TargetColumn,
           " (", rel.Cardinality, ")">>)

MultiIndexLine(idx) ==
    Line("Idx", <<"- ", idx.Name, " on (">> \o Join(idx.Columns, ", ")
                \o (IF idx.IsUnique THEN <<"), unique">> ELSE <<")">>))

\* writeTableFile, markdown: "- %s.%s -> %s.%s (%s)"
ReferencedByLine(rel) ==
    Line("Referenced by",
         <<"- ", rel.SourceTable, ".", rel.SourceColumn, Arrow,
           rel.TargetTable, ".", rel.TargetColumn, " (", rel.Cardinality, ")">>)

\* writeTableFile, text: "%s.%s -> %s.%s (%s)"
TextReferencedByLine(rel) ==
    Line("REFERENCED BY",
         <<rel.SourceTable, ".", rel.SourceColumn, Arrow,
           rel.TargetTable, ".", rel.TargetColumn, " (", rel.Cardinality, ")">>)

TextColumnLine(col) ==
    Line("TABLE",
         <<"  ">> \o Join(<<col.Name, ":", col.Type>>
                          \o (IF col.IsUnique THEN <<"UNIQUE">> ELSE <<>>)
                          \o (IF ~col.Nullable THEN <<"NOT NULL">> ELSE <<>>), " "))

TextRelationLine(rel) ==
    Line("RELATIONS", <<"    ", Arrow, rel.TargetTable, ".", rel.TargetColumn,
                        " (", rel.Cardinality, ")">>)

TextIndexLine(idx) ==
    Line("INDEXES", <<"    ", idx.Name, " (">> \o Join(idx.Columns, ", ")
                    \o (IF idx.IsUnique THEN <<") UNIQUE">> ELSE <<")">>))

\* TextFormatter.formatTable
TextTable(table) ==
    << Line("header", <<"TABLE ", table.Name>>
                      \o (IF Len(table.PrimaryKey) > 0
                          THEN <<" (PK: ">> \o Join(table.PrimaryKey, ", ") \o <<")">>
                          ELSE <<>>)) >>
    \o [k \in DOMAIN table.Columns |-> TextColumnLine(table.Columns[k])]
    \o (IF Len(table.Relations) > 0
        THEN <<Line("RELATIONS", <<"  RELATIONS:">>)>>
             \o [k \in DOMAIN table.Relations |-> TextRelationLine(table.Relations[k])]
        ELSE <<>>)
    \o (IF Len(table.Indexes) > 0
        THEN <<Line("INDEXES", <<"  INDEXES:">>)>>
             \o [k \in DOMAIN table.Indexes |-> TextIndexLine(table.Indexes[k])]
        ELSE <<>>)

\* The document writeTableFile writes for one table of the Schema.
TableDocument(table, tables, format) ==
    LET incomingRels == findIncomingRelations(table.Name, tables)
    IN  IF format = "markdown"
        THEN <<Line("header", <<"## ", table.Name>>), Line("Columns", <<"### Columns">>)>>
             \o [i \in DOMAIN table.Columns |-> MultiColumnLine(table.Columns[i], table.PrimaryKey)]
             \o (IF Len(table.Relations) > 0
                 THEN <<Line("References", <<"### References">>)>>
                      \o [k \in DOMAIN table.Relations |-> MultiReferenceLine(table.Relations[k])]
                 ELSE <<>>)
             \o (IF Len(table.Indexes) > 0
                 THEN <<Line("Idx", <<"### Idx">>)>>
                      \o [k \in DOMAIN table.Indexes |-> MultiIndexLine(table.Indexes[k])]
                 ELSE <<>>)
             \o (IF Len(incomingRels) > 0
                 THEN <<Line("Referenced by", <<"### Referenced by">>)>>
                      \o [k \in DOMAIN incomingRels |-> ReferencedByLine(incomingRels[k])]
                 ELSE <<>>)
        ELSE TextTable(table)
             \o (IF Len(incomingRels) > 0
                 THEN <<Line("REFERENCED BY", <<"REFERENCED BY:">>)>>
                      \o [k \in DOMAIN incomingRels |-> TextReferencedByLine(incomingRels[k])]
                 ELSE <<>>)

\* Variant: the copy is listed without sorting it.
SortedCopiesUnsorted(tables) == {tables}

\* sort.Slice by Name: some ordering of the copy that is ascending by Name
\* (the sort is not stable: equal names may end in either order).
SortedCopies(tables) ==
    LET n == Len(tables)
        perms == {p \in [1..n -> 1..n] : \A i, j \in 1..n : i # j => p[i] # p[j]}
    IN  {[i \in 1..n |-> tables[p[i]]] : p \in
            {q \in perms : \A i, j \in 1..n :
                 i < j => ~Less(tables[q[j]].Name, tables[q[i]].Name)}}

OverviewLine(table, format) ==
    LET targets == [i \in DOMAIN table.Relations |-> table.Relations[i].TargetTable]
    IN  Line("Tables",
             (IF format = "markdown" THEN <<"- **", table.Name, "**">> ELSE <<table.Name>>)
             \o (IF Len(table.Relations) > 0
                 THEN <<" (refs: ">>
                      \o Join(targets, IF format = "markdown" THEN ", " ELSE ",")
                      \o <<")">>
                 ELSE <<>>))

\* writeMarkdownOverview / writeTextOverview over one sorted copy
OverviewDocument(sortedTables, format) ==
    (IF format = "markdown"
     THEN << Line("title", <<"# Schema Overview">>),
             Line("title", <<"Each table has a corresponding file: <table_name>",
                             getFileExtension(format)>>),
             Line("title", <<"## Tables">>) >>
     ELSE << Line("title", <<"SCHEMA OVERVIEW">>),
             Line("title", <<"Each table has a file: <table_name>",
                             getFileExtension(format)>>) >>)
    \o [i \in DOMAIN sortedTables |-> OverviewLine(sortedTables[i], format)]

\* buildTypeString
buildTypeString(col, primaryKey) ==
    LET isPK == col.Name \in Range(primaryKey)
    IN  Join((IF isPK THEN <<"PK">> ELSE <<>>)
             \o <<col.Type>>
             \o (IF ~col.Nullable THEN <<"NOT NULL">> ELSE <<>>)
             \o (IF col.IsUnique /\ ~isPK THEN <<"UNIQUE">> ELSE <<>>), " ")

\* formatIndexes: single-column unique indexes of a column already marked
\* unique are skipped.
FilteredIndexes(indexes, columns) ==
    SelectSeq(indexes, LAMBDA idx :
        ~(/\ idx.IsUnique
          /\ Len(idx.Columns) = 1
          /\ \E i \in DOMAIN columns :
                 columns[i].Name = idx.Columns[1] /\ columns[i].IsUnique))

MarkdownIndexLine(idx) ==
    Line("Index", <<"- ", idx.Name, " on (">> \o Join(idx.Columns, ", ")
                  \o (IF idx.IsUnique THEN <<"), unique">> ELSE <<")">>))

MarkdownRelationLine(tableName, rel) ==
    Line("References",
         <<"- ", rel.SourceColumn, Arrow, rel.TargetTable, ".", rel.TargetColumn, " (">>
         \o FormatCardinality(rel.Cardinality, tableName, rel.TargetTable) \o <<")">>)

\* MarkdownFormatter.formatTable
MarkdownTable(table) ==
    << Line("header", <<"## ", table.Name>>), Line("Columns", <<"| Column | Type |">>) >>
    \o [i \in DOMAIN table.Columns |->
           Line("Columns", <<"| ", table.Columns[i].Name, " | ">>
                           \o buildTypeString(table.Columns[i], table.PrimaryKey) \o <<" |">>)]
    \o (IF Len(FilteredIndexes(table.Indexes, table.Columns)) > 0
        THEN <<Line("Index", <<"### Index">>)>>
             \o LET kept == FilteredIndexes(table.Indexes, table.Columns)
                IN  [k \in DOMAIN kept |-> MarkdownIndexLine(kept[k])]
        ELSE <<>>)
    \o (IF Len(table.Relations) > 0
        THEN <<Line("References", <<"### References">>)>>
             \o [i \in DOMAIN table.Relations |->
                    MarkdownRelationLine(table.Name, table.Relations[i])]
        ELSE <<>>)

RECURSIVE ConcatTables(_, _)
ConcatTables(tables, i) ==
    IF i > Len(tables) THEN <<>>
    ELSE MarkdownTable(tables[i]) \o ConcatTables(tables, i + 1)

\* MarkdownFormatter.Format
SingleDocument(tables) ==
    <<Line("title", <<"# Database Schema">>)>> \o ConcatTables(tables, 1)

RECURSIVE ConcatTextTables(_, _)
ConcatTextTables(tables, i) ==
    IF i > Len(tables) THEN <<>>
    ELSE TextTable(tables[i]) \o ConcatTextTables(tables, i + 1)

\* TextFormatter.Format: the tables one after the other, nothing before them
TextDocument(tables) == ConcatTextTables(tables, 1)

----------------------------------------------------------------------------
(* The run: ExtractAndFormat = ExtractSchema, exclusions, FormatSchema *)

NotResolved == [called |-> FALSE, tableName |-> "", rels |-> <<>>]

NoSink == [writer |-> "", doc |-> <<>>]

NoOutput == [OutputDir |-> "", Writer |-> "nil"]

\* The library entry points read no command line.
NoFlags == [outputFile |-> "", outputDir |-> "", format |-> ""]

NoEnum == [declared |-> <<>>, columnType |-> <<>>, parsed |-> FALSE, EnumValues |-> <<>>]

\* extractTable has not started on a table.
Start == [fn |-> "extractColumns", col |-> 0, row |-> 0]

NoPartial == [flags |-> <<>>, indexes |-> <<>>]

\* No client, no result set, no output file.
IdleResources ==
    /\ closes = 0
    /\ openFiles = {}
    /\ rowsOpen = <<>>
    /\ connsDrawn = 0
    /\ position = Start
    /\ partial = NoPartial
    /\ ignored = <<>>

OptionsSet ==
    [Tables : SeqsUpTo(Names, MaxTables), ExcludeTables : SeqsUpTo(Names, MaxExclude)]

OutputOptionsSet == [OutputDir : {"", "docs"}, Writer : {"nil", "buf"}]

\* The *OutputOptions FormatSchema is called with: nil or a pointer to a value.
OutputOptionsArgs ==
    {[isNil |-> TRUE, OutputDir |-> "", Writer |-> "nil"]}
    \cup {[isNil |-> FALSE, OutputDir |-> o.OutputDir, Writer |-> o.Writer] :
             o \in OutputOptionsSet}

\* if opts == nil { opts = &OutputOptions{Writer: os.Stdout} }
OptionsOrDefault(p) ==
    IF p.isNil THEN [OutputDir |-> "", Writer |-> "stdout"]
    ELSE [OutputDir |-> p.OutputDir, Writer |-> p.Writer]

\* Variant: a Writer switches the multi-file output off.
MultiFileOutputUnlessWriter(o) == o.OutputDir # "" /\ o.Writer = "nil"

\* if opts.OutputDir != "" { ... multi-file output ... }
MultiFileOutput(o) == o.OutputDir # ""

\* writer := opts.Writer; if writer == nil { writer = os.Stdout }
WriterOrStdout(o) == IF o.Writer = "nil" THEN "stdout" ELSE o.Writer

\* FormatSchema always builds the multi-file formatter with "markdown".
LibraryFormat == "markdown"

\* Variant: the deferred Close is left out.
ClientCloseSkipped(n) == n

\* defer func() { _ = client.Close() }(): one more Close call on the client.
ClientClose(n) == n + 1

\* os.Create(filename) and the deferred file.Close()
\* Variant: the file is left open when the function returns.
CloseFileSkipped(open, name) == open

OpenFile(open, name) == open \cup {name}

CloseFile(open, name) == open \ {name}

Init ==
    /\ backend \in Backends
    /\ catalog \in Catalogs
    /\ opts \in OptionsSet
    /\ pc = "start"
    /\ connOpen = FALSE
    /\ tableNames = <<>>
    /\ extractedTables = <<>>
    /\ described = <<>>
    /\ schema = NilSchema
    /\ extracted = NilSchema
    /\ err = NoError
    /\ outOpts = NoOutput
    /\ files = <<>>
    /\ created = <<>>
    /\ resolved = NotResolved
    /\ sink = NoSink
    /\ flags = NoFlags
    /\ OutputFormat = ""
    /\ dirCreated = FALSE
    /\ dbIO = FALSE
    /\ writeFailed = FALSE
    /\ enumCol = NoEnum
    /\ IdleResources

\* New*Client: open and ping.
Connect ==
    /\ pc = "start"
    /\ connOpen' = TRUE
    /\ dbIO' = TRUE
    /\ pc' = "connected"
    /\ connsDrawn' = 1
    /\ UNCHANGED <<backend, catalog, opts, tableNames, extractedTables, described,
                   schema, extracted, err, outOpts, files, created, resolved, sink,
                   flags, OutputFormat, dirCreated, writeFailed, enumCol,
                   closes, openFiles, rowsOpen, position, partial, ignored>>

\* New*Client: pgx.Connect / sql.Open returns an error and there is nothing to
\* close, or the ping fails and the constructor closes what it opened.
ConnectFails ==
    /\ pc = "start"
    /\ \E q \in {"open", "ping"}, c \in Causes :
          /\ err' = Error("failed to connect", "", q, c)
          /\ closes' = IF q = "ping" THEN ClientClose(closes) ELSE closes
          /\ connsDrawn' = IF q = "ping" THEN 1 ELSE connsDrawn
    /\ dbIO' = TRUE
    /\ pc' = "failed"
    /\ UNCHANGED <<backend, catalog, opts, connOpen, tableNames, extractedTables,
                   described, schema, extracted, outOpts, files, created, resolved, sink,
                   flags, OutputFormat, dirCreated, writeFailed, enumCol,
                   openFiles, rowsOpen, position, partial, ignored>>

\* ExtractSchema: tableNames, err := e.getTableNames(ctx, tables)
GetTableNames ==
    /\ pc = "connected"
    /\ tableNames' = getTableNames(catalog, opts.Tables)
    /\ pc' = "extracting"
    /\ UNCHANGED <<backend, catalog, opts, connOpen, extractedTables, described,
                   schema, extracted, err, outOpts, files, created, resolved, sink,
                   flags, OutputFormat, dirCreated, dbIO, writeFailed, enumCol,
                   closes, openFiles, rowsOpen, connsDrawn, position, partial, ignored>>

\* The listing query fails (it is only issued without an explicit list).
GetTableNamesFails ==
    /\ pc = "connected"
    /\ Len(opts.Tables) = 0
    /\ \E c \in Causes : err' = Error("failed to get table names", "", "tables", c)
    /\ connOpen' = FALSE
    /\ pc' = "failed"
    /\ closes' = ClientClose(closes)
    /\ UNCHANGED <<backend, catalog, opts, tableNames, extractedTables, described,
                   schema, extracted, outOpts, files, created, resolved, sink,
                   flags, OutputFormat, dirCreated, dbIO, writeFailed, enumCol,
                   openFiles, rowsOpen, connsDrawn, position, partial, ignored>>

\* Variant: best-effort extraction returns the tables described so far.
ExtractSchemaOnErrorPartial(tables) == [isNil |-> FALSE, Tables |-> tables]

\* What ExtractSchema returns when extractTable returned an error.
ExtractSchemaOnError(tables) == NilSchema

\* One iteration of ExtractSchema's loop: extractTable succeeds.
ExtractTable ==
    /\ pc = "extracting"
    /\ Len(extractedTables) < Len(tableNames)
    /\ LET tableName == tableNames[Len(extractedTables) + 1]
       IN  /\ described' = Append(described, tableName)
           /\ extractedTables' = Append(extractedTables, extractTable(backend, catalog, tableName))
    /\ UNCHANGED <<backend, catalog, opts, pc, connOpen, tableNames, schema, extracted,
                   err, outOpts, files, created, resolved, sink,
                   flags, OutputFormat, dirCreated, dbIO, writeFailed, enumCol,
                   closes, openFiles, rowsOpen, connsDrawn, position, partial, ignored>>

\* One iteration of the loop: a metadata query of extractTable fails.
ExtractTableFails ==
    /\ pc = "extracting"
    /\ Len(extractedTables) < Len(tableNames)
    /\ LET tableName == tableNames[Len(extractedTables) + 1]
       IN  /\ described' = Append(described, tableName)
           /\ \E q \in QueryPoints(backend, catalog, tableName), c \in Causes :
                  err' = Error("failed to extract table", tableName, q, c)
    /\ schema' = ExtractSchemaOnError(extractedTables)
    /\ connOpen' = FALSE
    /\ pc' = "failed"
    /\ closes' = ClientClose(closes)
    /\ UNCHANGED <<backend, catalog, opts, tableNames, extractedTables, extracted,
                   outOpts, files, created, resolved, sink,
                   flags, OutputFormat, dirCreated, dbIO, writeFailed, enumCol,
                   openFiles, rowsOpen, connsDrawn, position, partial, ignored>>

\* SQLite isColumnUnique: the index_info query fails and Close is called on
\* the nil rows; the run panics (the deferred client.Close still runs).
ExtractTablePanics ==
    /\ pc = "extracting"
    /\ Len(extractedTables) < Len(tableNames)
    /\ LET tableName == tableNames[Len(extractedTables) + 1]
       IN  /\ NilRowsClosePossible(backend, catalog, tableName)
           /\ described' = Append(described, tableName)
    /\ connOpen' = FALSE
    /\ pc' = "panicked"
    /\ closes' = ClientClose(closes)
    /\ UNCHANGED <<backend, catalog, opts, tableNames, extractedTables, schema, extracted,
                   err, outOpts, files, created, resolved, sink,
                   flags, OutputFormat, dirCreated, dbIO, writeFailed, enumCol,
                   openFiles, rowsOpen, connsDrawn, position, partial, ignored>>

\* return &schema.Schema{Tables: extractedTables}, nil; the deferred Close runs.
ReturnSchema ==
    /\ pc = "extracting"
    /\ Len(extractedTables) = Len(tableNames)
    /\ schema' = ExtractSchemaResult(opts, extractedTables)
    /\ extracted' = schema'
    /\ connOpen' = FALSE
    /\ pc' = "extracted"
    /\ closes' = ClientClose(closes)
    /\ UNCHANGED <<backend, catalog, opts, tableNames, extractedTables, described,
                   err, outOpts, files, created, resolved, sink,
                   flags, OutputFormat, dirCreated, dbIO, writeFailed, enumCol,
                   openFiles, rowsOpen, connsDrawn, position, partial, ignored>>

\* ExtractAndFormat: apply exclusions
ApplyExclusions ==
    /\ pc = "extracted"
    /\ schema' = [schema EXCEPT !.Tables = ApplyExclusionsResult(opts, schema.Tables)]
    /\ pc' = "filtered"
    /\ UNCHANGED <<backend, catalog, opts, connOpen, tableNames, extractedTables, described,
                   extracted, err, outOpts, files, created, resolved, sink,
                   flags, OutputFormat, dirCreated, dbIO, writeFailed, enumCol,
                   closes, openFiles, rowsOpen, connsDrawn, position, partial, ignored>>

\* FormatSchema with OutputDir set: multi-file output
FormatSchemaMulti ==
    /\ pc = "filtered"
    /\ \E p \in OutputOptionsArgs :
          /\ MultiFileOutput(OptionsOrDefault(p))
          /\ outOpts' = OptionsOrDefault(p)
    /\ OutputFormat' = LibraryFormat
    /\ pc' = "mkdir"
    /\ UNCHANGED <<backend, catalog, opts, connOpen, tableNames, extractedTables, described,
                   schema, extracted, err, files, created, resolved, sink,
                   flags, dirCreated, dbIO, writeFailed, enumCol,
                   closes, openFiles, rowsOpen, connsDrawn, position, partial, ignored>>

\* FormatSchema without OutputDir: MarkdownFormatter.Format to the writer
FormatSchemaSingle ==
    /\ pc = "filtered"
    /\ \E p \in OutputOptionsArgs :
          /\ ~MultiFileOutput(OptionsOrDefault(p))
          /\ outOpts' = OptionsOrDefault(p)
          /\ sink' = [writer |-> WriterOrStdout(OptionsOrDefault(p)),
                      doc |-> SingleDocument(schema.Tables)]
    /\ pc' = "done"
    /\ UNCHANGED <<backend, catalog, opts, connOpen, tableNames, extractedTables, described,
                   schema, extracted, err, files, created, resolved,
                   flags, OutputFormat, dirCreated, dbIO, writeFailed, enumCol,
                   closes, openFiles, rowsOpen, connsDrawn, position, partial, ignored>>

\* MultiFileFormatter.Format: os.MkdirAll
MkdirAll ==
    /\ pc = "mkdir"
    /\ dirCreated' = TRUE
    /\ pc' = "overview"
    /\ UNCHANGED <<backend, catalog, opts, connOpen, tableNames, extractedTables, described,
                   schema, extracted, err, outOpts, files, created, resolved, sink,
                   flags, OutputFormat, dbIO, writeFailed, enumCol,
                   closes, openFiles, rowsOpen, connsDrawn, position, partial, ignored>>

MkdirAllFails ==
    /\ pc = "mkdir"
    /\ err' = Error("failed to create output directory", "", "", "")
    /\ pc' = "failed"
    /\ UNCHANGED <<backend, catalog, opts, connOpen, tableNames, extractedTables, described,
                   schema, extracted, outOpts, files, created, resolved, sink,
                   flags, OutputFormat, dirCreated, dbIO, writeFailed, enumCol,
                   closes, openFiles, rowsOpen, connsDrawn, position, partial, ignored>>

\* os.Create truncates: the document replaces whatever the name held.
WriteFile(dir, name, doc) ==
    [f \in DOMAIN dir \cup {name} |-> IF f = name THEN doc ELSE dir[f]]

\* writeOverview
WriteOverview ==
    /\ pc = "overview"
    /\ \E sortedTables \in SortedCopies(schema.Tables) :
          files' = WriteFile(files, FileName(OverviewName, OutputFormat),
                             OverviewDocument(sortedTables, OutputFormat))
    /\ created' = Append(created, FileName(OverviewName, OutputFormat))
    /\ pc' = "tables"
    /\ openFiles' = CloseFile(OpenFile(openFiles, FileName(OverviewName, OutputFormat)),
                            FileName(OverviewName, OutputFormat))
    /\ UNCHANGED <<backend, catalog, opts, connOpen, tableNames, extractedTables, described,
                   schema, extracted, err, outOpts, resolved, sink,
                   flags, OutputFormat, dirCreated, dbIO, writeFailed, enumCol,
                   closes, rowsOpen, connsDrawn, position, partial, ignored>>

WriteOverviewFails ==
    /\ pc = "overview"
    /\ err' = Error("failed to write overview", "", "", "")
    /\ pc' = "failed"
    /\ UNCHANGED <<backend, catalog, opts, connOpen, tableNames, extractedTables, described,
                   schema, extracted, outOpts, files, created, resolved, sink,
                   flags, OutputFormat, dirCreated, dbIO, writeFailed, enumCol,
                   closes, openFiles, rowsOpen, connsDrawn, position, partial, ignored>>

\* Index of the table the per-table loop of Format is at.
NextTable == Len(created)

\* writeTableFile for the next table of the Schema
WriteTableFile ==
    /\ pc = "tables"
    /\ NextTable <= Len(schema.Tables)
    /\ LET table == schema.Tables[NextTable]
       IN  /\ files' = WriteFile(files, FileName(table.Name, OutputFormat),
                                 TableDocument(table, schema.Tables, OutputFormat))
           /\ created' = Append(created, FileName(table.Name, OutputFormat))
           /\ resolved' = [called |-> TRUE, tableName |-> table.Name,
                           rels |-> findIncomingRelations(table.Name, schema.Tables)]
    /\ openFiles' = CloseFile(OpenFile(openFiles, FileName(schema.Tables[NextTable].Name, OutputFormat)),
                            FileName(schema.Tables[NextTable].Name, OutputFormat))
    /\ UNCHANGED <<backend, catalog, opts, pc, connOpen, tableNames, extractedTables,
                   described, schema, extracted, err, outOpts, sink,
                   flags, OutputFormat, dirCreated, dbIO, writeFailed, enumCol,
                   closes, rowsOpen, connsDrawn, position, partial, ignored>>

\* Variant: a failed run removes what it wrote.
FormatOnErrorRollBack(dir) == [f \in {} |-> <<>>]

\* Format returns writeTableFile's error at once: what was written stays.
FormatOnError(dir) == dir

\* os.Create fails for the next table: Format returns the error naming it.
WriteTableFileFails ==
    /\ pc = "tables"
    /\ NextTable <= Len(schema.Tables)
    /\ err' = Error("failed to write table file", schema.Tables[NextTable].Name, "", "")
    /\ files' = FormatOnError(files)
    /\ pc' = "failed"
    /\ UNCHANGED <<backend, catalog, opts, connOpen, tableNames, extractedTables, described,
                   schema, extracted, outOpts, created, resolved, sink,
                   flags, OutputFormat, dirCreated, dbIO, writeFailed, enumCol,
                   closes, openFiles, rowsOpen, connsDrawn, position, partial, ignored>>

\* Format returns nil after the last table
FormatReturn ==
    /\ pc = "tables"
    /\ NextTable > Len(schema.Tables)
    /\ pc' = "done"
    /\ UNCHANGED <<backend, catalog, opts, connOpen, tableNames, extractedTables, described,
                   schema, extracted, err, outOpts, files, created, resolved, sink,
                   flags, OutputFormat, dirCreated, dbIO, writeFailed, enumCol,
                   closes, openFiles, rowsOpen, connsDrawn, position, partial, ignored>>

NextFormat ==
    \/ FormatSchemaMulti
    \/ FormatSchemaSingle
    \/ MkdirAll
    \/ MkdirAllFails
    \/ WriteOverview
    \/ WriteOverviewFails
    \/ WriteTableFile
    \/ WriteTableFileFails
    \/ FormatReturn

Next ==
    \/ Connect
    \/ ConnectFails
    \/ GetTableNames
    \/ GetTableNamesFails
    \/ ExtractTable
    \/ ExtractTableFails
    \/ ExtractTablePanics
    \/ ReturnSchema
    \/ ApplyExclusions
    \/ NextFormat

Spec == Init /\ [][Next]_vars

----------------------------------------------------------------------------
(* FormatSchema called on a Schema the caller built or modified *)

SourceColumns == {"user_id", "author_id"}

\* A relation of the drawn Schema: owning table and the Relation itself.
RelCandidates ==
    [src : {"orders", "posts"},
     rel : [SourceColumn : SourceColumns, TargetTable : {"orders", "users"},
            TargetColumn : {"id"}, Cardinality : {"N:1"}]]

DrawnSchema(names, rels) ==
    [isNil |-> FALSE,
     Tables |-> [i \in DOMAIN names |->
        LET own == SelectSeq(rels, LAMBDA r : r.src = names[i])
        IN  [Name |-> names[i],
             Columns |-> <<>>,
             PrimaryKey |-> <<>>,
             Relations |-> [j \in DOMAIN own |-> own[j].rel],
             Indexes |-> <<>>]]]

Schemas ==
    {DrawnSchema(names, rels) : names \in SeqsUpTo(Names, MaxSchemaTables),
                                rels \in SeqsUpTo(RelCandidates, MaxRels)}

InitFormat ==
    /\ backend = "postgres"
    /\ catalog = <<>>
    /\ opts = [Tables |-> <<>>, ExcludeTables |-> <<>>]
    /\ pc = "filtered"
    /\ connOpen = FALSE
    /\ tableNames = <<>>
    /\ extractedTables = <<>>
    /\ described = <<>>
    /\ schema \in Schemas
    /\ extracted = NilSchema
    /\ err = NoError
    /\ outOpts = NoOutput
    /\ files = <<>>
    /\ created = <<>>
    /\ resolved = NotResolved
    /\ sink = NoSink
    /\ flags = NoFlags
    /\ OutputFormat = ""
    /\ dirCreated = FALSE
    /\ dbIO = FALSE
    /\ writeFailed = FALSE
    /\ enumCol = NoEnum
    /\ IdleResources

SpecFormat == InitFormat /\ [][NextFormat]_vars

----------------------------------------------------------------------------
(* A database that holds a table named like the overview file *)

CatalogsWithOverviewName ==
    {[t \in S \cup {OverviewName} |-> TableDef(t)] : S \in {X \in SUBSET Names : Closed(X)}}

InitOverviewName ==
    /\ backend \in Backends
    /\ catalog \in CatalogsWithOverviewName
    /\ opts \in [Tables : {<<>>, <<OverviewName>>}, ExcludeTables : {<<>>, <<"users">>}]
    /\ pc = "start"
    /\ connOpen = FALSE
    /\ tableNames = <<>>
    /\ extractedTables = <<>>
    /\ described = <<>>
    /\ schema = NilSchema
    /\ extracted = NilSchema
    /\ err = NoError
    /\ outOpts = NoOutput
    /\ files = <<>>
    /\ created = <<>>
    /\ resolved = NotResolved
    /\ sink = NoSink
    /\ flags = NoFlags
    /\ OutputFormat = ""
    /\ dirCreated = FALSE
    /\ dbIO = FALSE
    /\ writeFailed = FALSE
    /\ enumCol = NoEnum
    /\ IdleResources

SpecOverviewName == InitOverviewName /\ [][Next]_vars

----------------------------------------------------------------------------
(* The command line (cmd/llmschema): run = parseDatabaseURL, parseTableList, *)
(* extractSchema, formatOutput                                               *)

FlagsSet ==
    [outputFile : {"", "schema.out"}, outputDir : {"", "docs"},
     format : {"markdown", "text", "json"}]

\* The path os.Create(outputFile) opens, as a key of the file system.
OutputFilePath == <<flags.outputFile, "">>

InitCLI ==
    /\ backend \in Backends
    /\ catalog \in Catalogs
    /\ opts \in [Tables : SeqsUpTo(Names, MaxTables), ExcludeTables : {<<>>}]
    /\ pc = "start"
    /\ connOpen = FALSE
    /\ tableNames = <<>>
    /\ extractedTables = <<>>
    /\ described = <<>>
    /\ schema = NilSchema
    /\ extracted = NilSchema
    /\ err = NoError
    /\ outOpts = NoOutput
    /\ files = <<>>
    /\ created = <<>>
    /\ resolved = NotResolved
    /\ sink = NoSink
    /\ flags \in FlagsSet
    /\ OutputFormat = ""
    /\ dirCreated = FALSE
    /\ dbIO = FALSE
    /\ writeFailed = FALSE
    /\ enumCol = NoEnum
    /\ IdleResources

\* formatOutput: both --output-dir and --output are set
FormatOutputConflict ==
    /\ pc = "extracted"
    /\ flags.outputDir # "" /\ flags.outputFile # ""
    /\ err' = Error("cannot use both --output-dir and --output flags", "", "", "")
    /\ pc' = "failed"
    /\ UNCHANGED <<backend, catalog, opts, connOpen, tableNames, extractedTables, described,
                   schema, extracted, outOpts, files, created, resolved, sink,
                   flags, OutputFormat, dirCreated, dbIO, writeFailed, enumCol,
                   closes, openFiles, rowsOpen, connsDrawn, position, partial, ignored>>

\* formatOutput: NewMultiFileFormatter(outputDir, format).Format
FormatOutputMulti ==
    /\ pc = "extracted"
    /\ flags.outputDir # "" /\ flags.outputFile = ""
    /\ outOpts' = [OutputDir |-> flags.outputDir, Writer |-> "nil"]
    /\ OutputFormat' = flags.format
    /\ pc' = "mkdir"
    /\ UNCHANGED <<backend, catalog, opts, connOpen, tableNames, extractedTables, described,
                   schema, extracted, err, files, created, resolved, sink,
                   flags, dirCreated, dbIO, writeFailed, enumCol,
                   closes, openFiles, rowsOpen, connsDrawn, position, partial, ignored>>

\* formatOutput: os.Create(outputFile) fails
FormatOutputCreateFails ==
    /\ pc = "extracted"
    /\ flags.outputDir = "" /\ flags.outputFile # ""
    /\ err' = Error("failed to create output file", "", "", "")
    /\ pc' = "failed"
    /\ UNCHANGED <<backend, catalog, opts, connOpen, tableNames, extractedTables, described,
                   schema, extracted, outOpts, files, created, resolved, sink,
                   flags, OutputFormat, dirCreated, dbIO, writeFailed, enumCol,
                   closes, openFiles, rowsOpen, connsDrawn, position, partial, ignored>>

\* formatOutput: single-file output to stdout or to the created file, in the
\* rendering the switch on format selects.
FormatOutputSingle ==
    /\ pc = "extracted"
    /\ flags.outputDir = ""
    /\ flags.format \in {"text", "markdown"}
    /\ LET doc == IF flags.format = "text" THEN TextDocument(schema.Tables)
                  ELSE SingleDocument(schema.Tables)
       IN  /\ sink' = [writer |-> IF flags.outputFile # "" THEN "file" ELSE "stdout",
                       doc |-> doc]
           /\ files' = IF flags.outputFile # "" THEN WriteFile(files, OutputFilePath, doc)
                       ELSE files
    /\ pc' = "done"
    /\ openFiles' = IF flags.outputFile # ""
                    THEN CloseFile(OpenFile(openFiles, OutputFilePath), OutputFilePath)
                    ELSE openFiles
    /\ UNCHANGED <<backend, catalog, opts, connOpen, tableNames, extractedTables, described,
                   schema, extracted, err, outOpts, created, resolved,
                   flags, OutputFormat, dirCreated, dbIO, writeFailed, enumCol,
                   closes, rowsOpen, connsDrawn, position, partial, ignored>>

\* formatOutput: the switch on format reaches default, after os.Create
FormatOutputInvalidFormat ==
    /\ pc = "extracted"
    /\ flags.outputDir = ""
    /\ flags.format \notin {"text", "markdown"}
    /\ files' = IF flags.outputFile # "" THEN WriteFile(files, OutputFilePath, <<>>)
                ELSE files
    /\ err' = Error("invalid format", "", "", "")
    /\ pc' = "failed"
    /\ openFiles' = IF flags.outputFile # ""
                    THEN CloseFile(OpenFile(openFiles, OutputFilePath), OutputFilePath)
                    ELSE openFiles
    /\ UNCHANGED <<backend, catalog, opts, connOpen, tableNames, extractedTables, described,
                   schema, extracted, outOpts, created, resolved, sink,
                   flags, OutputFormat, dirCreated, dbIO, writeFailed, enumCol,
                   closes, rowsOpen, connsDrawn, position, partial, ignored>>

NextCLI ==
    \/ Connect
    \/ ConnectFails
    \/ GetTableNames
    \/ GetTableNamesFails
    \/ ExtractTable
    \/ ExtractTableFails
    \/ ExtractTablePanics
    \/ ReturnSchema
    \/ FormatOutputConflict
    \/ FormatOutputMulti
    \/ FormatOutputCreateFails
    \/ FormatOutputSingle
    \/ FormatOutputInvalidFormat
    \/ MkdirAll
    \/ MkdirAllFails
    \/ WriteOverview
    \/ WriteOverviewFails
    \/ WriteTableFile
    \/ WriteTableFileFails
    \/ FormatReturn

SpecCLI == InitCLI /\ [][NextCLI]_vars

----------------------------------------------------------------------------
(* Output destinations whose writes fail: every Fprintf / Fprintln result is *)
(* discarded (_, _ = ...), so the formatter goes on after a failed write     *)

\* What reached the destination when a write failed: the lines before it.
WrittenBeforeFailure(doc) == {SubSeq(doc, 1, n) : n \in 0..(Len(doc) - 1)}

\* writeOverview: a write to the overview file fails; the function returns nil.
WriteOverviewWriteError ==
    /\ pc = "overview"
    /\ \E sortedTables \in SortedCopies(schema.Tables) :
          \E doc \in WrittenBeforeFailure(OverviewDocument(sortedTables, OutputFormat)) :
             files' = WriteFile(files, FileName(OverviewName, OutputFormat), doc)
    /\ created' = Append(created, FileName(OverviewName, OutputFormat))
    /\ writeFailed' = TRUE
    /\ pc' = "tables"
    /\ openFiles' = CloseFile(OpenFile(openFiles, FileName(OverviewName, OutputFormat)),
                            FileName(OverviewName, OutputFormat))
    /\ UNCHANGED <<backend, catalog, opts, connOpen, tableNames, extractedTables, described,
                   schema, extracted, err, outOpts, resolved, sink,
                   flags, OutputFormat, dirCreated, dbIO, enumCol,
                   closes, rowsOpen, connsDrawn, position, partial, ignored>>

\* writeTableFile: a write to the table's file fails; the function returns nil.
WriteTableFileWriteError ==
    /\ pc = "tables"
    /\ NextTable <= Len(schema.Tables)
    /\ LET table == schema.Tables[NextTable]
       IN  /\ \E doc \in WrittenBeforeFailure(TableDocument(table, schema.Tables, OutputFormat)) :
                 files' = WriteFile(files, FileName(table.Name, OutputFormat), doc)
           /\ created' = Append(created, FileName(table.Name, OutputFormat))
           /\ resolved' = [called |-> TRUE, tableName |-> table.Name,
                           rels |-> findIncomingRelations(table.Name, schema.Tables)]
    /\ writeFailed' = TRUE
    /\ openFiles' = CloseFile(OpenFile(openFiles, FileName(schema.Tables[NextTable].Name, OutputFormat)),
                            FileName(schema.Tables[NextTable].Name, OutputFormat))
    /\ UNCHANGED <<backend, catalog, opts, pc, connOpen, tableNames, extractedTables,
                   described, schema, extracted, err, outOpts, sink,
                   flags, OutputFormat, dirCreated, dbIO, enumCol,
                   closes, rowsOpen, connsDrawn, position, partial, ignored>>

\* MarkdownFormatter.Format: a write to the writer fails; Format returns nil.
FormatSchemaSingleWriteError ==
    /\ pc = "filtered"
    /\ \E p \in OutputOptionsArgs :
          /\ ~MultiFileOutput(OptionsOrDefault(p))
          /\ outOpts' = OptionsOrDefault(p)
          /\ \E doc \in WrittenBeforeFailure(SingleDocument(schema.Tables)) :
                sink' = [writer |-> WriterOrStdout(OptionsOrDefault(p)), doc |-> doc]
    /\ writeFailed' = TRUE
    /\ pc' = "done"
    /\ UNCHANGED <<backend, catalog, opts, connOpen, tableNames, extractedTables, described,
                   schema, extracted, err, files, created, resolved,
                   flags, OutputFormat, dirCreated, dbIO, enumCol,
                   closes, openFiles, rowsOpen, connsDrawn, position, partial, ignored>>

NextWriteErrors ==
    \/ NextFormat
    \/ WriteOverviewWriteError
    \/ WriteTableFileWriteError
    \/ FormatSchemaSingleWriteError

SpecWriteErrors == InitFormat /\ [][NextWriteErrors]_vars

----------------------------------------------------------------------------
(* Enumerated columns: strings are sequences of characters *)

\* Literals an enumerated type is declared with.
EnumLiterals ==
    { <<"a">>, <<"b">>, <<"a", " ", "b">>, <<"a", ",", "b">>, <<"a", "'", "s">> }

EnumDeclarations == SeqsUpTo(EnumLiterals, MaxEnumValues) \ {<<>>}

RECURSIVE QuoteDoubled(_)
\* A literal as information_schema shows it inside column_type: ' is doubled.
QuoteDoubled(lit) ==
    IF Len(lit) = 0 THEN <<>>
    ELSE (IF Head(lit) = "'" THEN <<"'", "'">> ELSE <<Head(lit)>>) \o QuoteDoubled(Tail(lit))

RECURSIVE QuotedList(_)
QuotedList(decl) ==
    IF Len(decl) = 0 THEN <<>>
    ELSE <<"'">> \o QuoteDoubled(Head(decl)) \o <<"'">>
         \o (IF Len(decl) > 1 THEN <<",">> ELSE <<>>) \o QuotedList(Tail(decl))

\* information_schema.columns.column_type of a MySQL ENUM column:
\* enum('v1','v2',...)
ColumnTypeOf(decl) == <<"e", "n", "u", "m", "(">> \o QuotedList(decl) \o <<")">>

\* strings.Index / strings.LastIndex of a character, 1-based; 0 when absent
Index(str, c) ==
    IF \E i \in DOMAIN str : str[i] = c
    THEN CHOOSE i \in DOMAIN str : str[i] = c /\ \A j \in 1..(i - 1) : str[j] # c
    ELSE 0

LastIndex(str, c) ==
    IF \E i \in DOMAIN str : str[i] = c
    THEN CHOOSE i \in DOMAIN str : str[i] = c /\ \A j \in (i + 1)..Len(str) : str[j] # c
    ELSE 0

HasPrefix(str, prefix) ==
    Len(str) >= Len(prefix) /\ SubSeq(str, 1, Len(prefix)) = prefix

\* strings.Split(str, ","): always at least one part
Split(str, sep) ==
    LET cuts == {i \in DOMAIN str : str[i] = sep}
        n == Cardinality(cuts)
        cutAt(k) == IF k = 0 THEN 0
                    ELSE IF k = n + 1 THEN Len(str) + 1
                    ELSE CHOOSE i \in cuts : Cardinality({j \in cuts : j <= i}) = k
    IN  [k \in 1..(n + 1) |-> SubSeq(str, cutAt(k - 1) + 1, cutAt(k) - 1)]

RECURSIVE TrimSpace(_)
TrimSpace(str) ==
    IF Len(str) = 0 THEN str
    ELSE IF Head(str) = " " THEN TrimSpace(Tail(str))
    ELSE IF str[Len(str)] = " " THEN TrimSpace(SubSeq(str, 1, Len(str) - 1))
    ELSE str

\* "Remove surrounding quotes"
Unquote(part) ==
    IF Len(part) >= 2 /\ part[1] = "'" /\ part[Len(part)] = "'"
    THEN SubSeq(part, 2, Len(part) - 1)
    ELSE part

\* MySQLExtractor.extractEnumValues: [values, err]
extractEnumValues(columnType) ==
    IF ~HasPrefix(columnType, <<"e", "n", "u", "m", "(">>)
    THEN [values |-> <<>>, err |-> FALSE]
    ELSE LET start == Index(columnType, "(")
             end == LastIndex(columnType, ")")
         IN  IF start = 0 \/ end = 0 \/ start >= end
             THEN [values |-> <<>>, err |-> TRUE]
             ELSE LET parts == Split(SubSeq(columnType, start + 1, end - 1), ",")
                  IN  [values |-> [i \in DOMAIN parts |-> Unquote(TrimSpace(parts[i]))],
                       err |-> FALSE]

RECURSIVE AppendLabels(_, _)
\* Extractor.extractEnumValuesMap: result[typName] = append(result[typName], enumLabel)
\* over the pg_enum rows ordered by enumsortorder
AppendLabels(rows, result) ==
    IF Len(rows) = 0 THEN result
    ELSE AppendLabels(Tail(rows), Append(result, Head(rows)))

InitEnum ==
    /\ backend \in {"mysql", "postgres"}
    /\ catalog = <<>>
    /\ opts = [Tables |-> <<>>, ExcludeTables |-> <<>>]
    /\ pc = "columns"
    /\ connOpen = TRUE
    /\ tableNames = <<>>
    /\ extractedTables = <<>>
    /\ described = <<>>
    /\ schema = NilSchema
    /\ extracted = NilSchema
    /\ err = NoError
    /\ outOpts = NoOutput
    /\ files = <<>>
    /\ created = <<>>
    /\ resolved = NotResolved
    /\ sink = NoSink
    /\ flags = NoFlags
    /\ OutputFormat = ""
    /\ dirCreated = FALSE
    /\ dbIO = TRUE
    /\ writeFailed = FALSE
    /\ \E decl \in EnumDeclarations :
          enumCol = [declared |-> decl,
                     columnType |-> IF backend = "mysql" THEN ColumnTypeOf(decl)
                                    ELSE <<"u", "s", "e", "r", "_", "s", "t", "a", "t", "u", "s">>,
                     parsed |-> FALSE,
                     EnumValues |-> <<>>]
    /\ IdleResources

\* MySQL extractColumns: columns[idx].EnumValues = extractEnumValues(columns[idx].Type)
ExtractEnumValues ==
    /\ pc = "columns"
    /\ backend = "mysql"
    /\ ~extractEnumValues(enumCol.columnType).err
    /\ enumCol' = [enumCol EXCEPT !.parsed = TRUE,
                                  !.EnumValues = extractEnumValues(enumCol.columnType).values]
    /\ pc' = "columns read"
    /\ UNCHANGED <<backend, catalog, opts, connOpen, tableNames, extractedTables, described,
                   schema, extracted, err, outOpts, files, created, resolved, sink,
                   flags, OutputFormat, dirCreated, dbIO, writeFailed,
                   closes, openFiles, rowsOpen, connsDrawn, position, partial, ignored>>

\* PostgreSQL extractColumns: columns[i].EnumValues = enumValuesMap[columns[i].Type]
ExtractEnumValuesMap ==
    /\ pc = "columns"
    /\ backend = "postgres"
    /\ enumCol' = [enumCol EXCEPT !.parsed = TRUE,
                                  !.EnumValues = AppendLabels(enumCol.declared, <<>>)]
    /\ pc' = "columns read"
    /\ UNCHANGED <<backend, catalog, opts, connOpen, tableNames, extractedTables, described,
                   schema, extracted, err, outOpts, files, created, resolved, sink,
                   flags, OutputFormat, dirCreated, dbIO, writeFailed,
                   closes, openFiles, rowsOpen, connsDrawn, position, partial, ignored>>

NextEnum ==
    \/ ExtractEnumValues
    \/ ExtractEnumValuesMap

SpecEnum == InitEnum /\ [][NextEnum]_vars

----------------------------------------------------------------------------
(* FormatSchema on Schemas whose relations carry every kind of cardinality tag *)

\* Relation.Cardinality is a free-form string: the three known tags and others
CardinalityTags == {"N:1", "1:N", "1:1", "N:M", ""}

CardinalitySchemas ==
    {[isNil |-> FALSE,
      Tables |-> <<[Name |-> src,
                    Columns |-> <<>>,
                    PrimaryKey |-> <<>>,
                    Relations |-> <<[SourceColumn |-> "user_id", TargetTable |-> tgt,
                                     TargetColumn |-> "id", Cardinality |-> tag]>>,
                    Indexes |-> <<>>]>>] :
        src \in Names, tgt \in Names, tag \in CardinalityTags}

InitCardinality ==
    /\ backend = "postgres"
    /\ catalog = <<>>
    /\ opts = [Tables |-> <<>>, ExcludeTables |-> <<>>]
    /\ pc = "filtered"
    /\ connOpen = FALSE
    /\ tableNames = <<>>
    /\ extractedTables = <<>>
    /\ described = <<>>
    /\ schema \in CardinalitySchemas
    /\ extracted = NilSchema
    /\ err = NoError
    /\ outOpts = NoOutput
    /\ files = <<>>
    /\ created = <<>>
    /\ resolved = NotResolved
    /\ sink = NoSink
    /\ flags = NoFlags
    /\ OutputFormat = ""
    /\ dirCreated = FALSE
    /\ dbIO = FALSE
    /\ writeFailed = FALSE
    /\ enumCol = NoEnum
    /\ IdleResources

\* MarkdownFormatter.Format -> formatTable -> FormatRelations -> FormatCardinality
NextCardinality ==
    \/ FormatSchemaSingle

SpecCardinality == InitCardinality /\ [][NextCardinality]_vars

----------------------------------------------------------------------------
(* filterExcludedTables called repeatedly on a Schema the caller holds *)

InitFilter ==
    /\ backend = "postgres"
    /\ catalog = <<>>
    /\ \E E \in SeqsUpTo(Names, MaxExclude) : opts = [Tables |-> <<>>, ExcludeTables |-> E]
    /\ pc = "extracted"
    /\ connOpen = FALSE
    /\ tableNames = <<>>
    /\ extractedTables = <<>>
    /\ described = <<>>
    /\ \E names \in SeqsUpTo(Names, MaxSchemaTables) : schema = DrawnSchema(names, <<>>)
    /\ extracted = schema
    /\ err = NoError
    /\ outOpts = NoOutput
    /\ files = <<>>
    /\ created = <<>>
    /\ resolved = NotResolved
    /\ sink = NoSink
    /\ flags = NoFlags
    /\ OutputFormat = ""
    /\ dirCreated = FALSE
    /\ dbIO = FALSE
    /\ writeFailed = FALSE
    /\ enumCol = NoEnum
    /\ IdleResources

\* filterExcludedTables(s, excludeList): s.Tables = filteredTables
FilterExcludedTables ==
    /\ pc = "extracted"
    /\ schema' = [schema EXCEPT !.Tables = filterExcludedTables(schema.Tables, opts.ExcludeTables)]
    /\ pc' = "filtered"
    /\ UNCHANGED <<backend, catalog, opts, connOpen, tableNames, extractedTables, described,
                   extracted, err, outOpts, files, created, resolved, sink,
                   flags, OutputFormat, dirCreated, dbIO, writeFailed, enumCol,
                   closes, openFiles, rowsOpen, connsDrawn, position, partial, ignored>>

\* A second call with the same list on the Schema the first call left;
\* extracted keeps the Schema as it was before this call.
FilterExcludedTablesAgain ==
    /\ pc = "filtered"
    /\ extracted' = schema
    /\ schema' = [schema EXCEPT !.Tables = filterExcludedTables(schema.Tables, opts.ExcludeTables)]
    /\ pc' = "refiltered"
    /\ UNCHANGED <<backend, catalog, opts, connOpen, tableNames, extractedTables, described,
                   err, outOpts, files, created, resolved, sink,
                   flags, OutputFormat, dirCreated, dbIO, writeFailed, enumCol,
                   closes, openFiles, rowsOpen, connsDrawn, position, partial, ignored>>

\* One call with a list that carries one more name; tableNames keeps the list
\* without it.
FilterExcludedTablesOneMore ==
    /\ pc = "extracted"
    /\ \E n \in Names :
          /\ opts' = [opts EXCEPT !.ExcludeTables = Append(opts.ExcludeTables, n)]
          /\ schema' = [schema EXCEPT !.Tables =
                           filterExcludedTables(schema.Tables, Append(opts.ExcludeTables, n))]
    /\ tableNames' = opts.ExcludeTables
    /\ pc' = "filtered one more"
    /\ UNCHANGED <<backend, catalog, connOpen, extractedTables, described,
                   extracted, err, outOpts, files, created, resolved, sink,
                   flags, OutputFormat, dirCreated, dbIO, writeFailed, enumCol,
                   closes, openFiles, rowsOpen, connsDrawn, position, partial, ignored>>

NextFilter ==
    \/ FilterExcludedTables
    \/ FilterExcludedTablesAgain
    \/ FilterExcludedTablesOneMore

SpecFilter == InitFilter /\ [][NextFilter]_vars

----------------------------------------------------------------------------
(* Extraction from tables with multi-column keys *)

\* users(id PK, username, email, UNIQUE (username, email)),
\* orders(id PK, user_name, user_email,
\*        CONSTRAINT fk_user FOREIGN KEY (user_name, user_email)
\*                   REFERENCES users (username, email)),
\* posts(id PK, author_id, CONSTRAINT <named> FOREIGN KEY (author_id) REFERENCES users (id))
CompositeDef(t, postsConstraint) ==
    CASE t = "users" ->
           [cols |-> <<Col("id", "integer", TRUE), Col("username", "text", TRUE),
                       Col("email", "text", TRUE)>>,
            pk |-> <<"id">>,
            uniques |-> << <<"username", "email">> >>,
            fks |-> <<>>,
            indexes |-> << Idx("users_pk", <<"id">>, TRUE, "pk"),
                           Idx("users_username_email_key", <<"username", "email">>, TRUE, "u") >>]
      [] t = "orders" ->
           [cols |-> <<Col("id", "integer", TRUE), Col("user_name", "text", TRUE),
                       Col("user_email", "text", TRUE)>>,
            pk |-> <<"id">>,
            uniques |-> <<>>,
            fks |-> << FK("fk_user", 1, "user_name", "users", "username"),
                       FK("fk_user", 2, "user_email", "users", "email") >>,
            indexes |-> << Idx("idx_user", <<"user_name", "user_email">>, FALSE, "c"),
                           Idx("orders_pk", <<"id">>, TRUE, "pk") >>]
      [] t = "posts" ->
           [cols |-> <<Col("id", "integer", TRUE), Col("author_id", "integer", TRUE)>>,
            pk |-> <<"id">>,
            uniques |-> <<>>,
            fks |-> << FK(postsConstraint, 1, "author_id", "users", "id") >>,
            indexes |-> << Idx("posts_pk", <<"id">>, TRUE, "pk") >>]

\* PostgreSQL and SQLite accept the same constraint name on two tables; MySQL
\* wants foreign-key names unique in the database.
ConstraintNames(b) ==
    IF b = "mysql" THEN {"posts_author_id_fkey"} ELSE {"posts_author_id_fkey", "fk_user"}

CompositeCatalogs(b) ==
    {[t \in S |-> CompositeDef(t, n)] :
        S \in {X \in SUBSET Names : "users" \in X}, n \in ConstraintNames(b)}

InitComposite ==
    /\ backend \in Backends
    /\ catalog \in CompositeCatalogs(backend)
    /\ opts \in [Tables : {<<>>}, ExcludeTables : {<<>>, <<"users">>}]
    /\ pc = "start"
    /\ connOpen = FALSE
    /\ tableNames = <<>>
    /\ extractedTables = <<>>
    /\ described = <<>>
    /\ schema = NilSchema
    /\ extracted = NilSchema
    /\ err = NoError
    /\ outOpts = NoOutput
    /\ files = <<>>
    /\ created = <<>>
    /\ resolved = NotResolved
    /\ sink = NoSink
    /\ flags = NoFlags
    /\ OutputFormat = ""
    /\ dirCreated = FALSE
    /\ dbIO = FALSE
    /\ writeFailed = FALSE
    /\ enumCol = NoEnum
    /\ IdleResources

SpecComposite == InitComposite /\ [][Next]_vars

----------------------------------------------------------------------------
(* extractTable query by query: result sets, connections, failures *)

\* The table extractTable is called on and its rows in the database.
CurrentTable == tableNames[Len(extractedTables) + 1]

Describing == pc = "extracting" /\ Len(extractedTables) < Len(tableNames)

\* The metadata query each function of extractTable issues first.
QueryOf(fn) ==
    CASE fn = "extractColumns" -> "columns"
      [] fn = "isColumnUnique" -> "index_list"
      [] fn = "extractPrimaryKey" -> "primary key"
      [] fn = "extractRelations" -> "relations"
      [] fn = "extractIndexes" -> "indexes"

\* SQLite isColumnUnique and extractIndexes run PRAGMA index_info for rows of
\* PRAGMA index_list while the outer result set is still being read.
HasLookups(b, fn) == b = "sqlite" /\ fn \in {"isColumnUnique", "extractIndexes"}

\* isColumnUnique looks up the unique indexes; extractIndexes every index whose
\* name does not start with sqlite_autoindex.
Qualifies(fn, idx) == IF fn = "isColumnUnique" THEN idx.unique ELSE idx.origin = "c"

\* extractColumns calls isColumnUnique for each column in turn (SQLite), then
\* extractTable goes on to the primary key.
AfterColumn(b, d, col) ==
    IF b = "sqlite" /\ col < Len(d.cols)
    THEN [fn |-> "isColumnUnique", col |-> col + 1, row |-> 0]
    ELSE [fn |-> "extractPrimaryKey", col |-> 0, row |-> 0]

AfterCall(b, d, fn) ==
    CASE fn = "extractColumns" -> AfterColumn(b, d, 0)
      [] fn = "extractPrimaryKey" -> [fn |-> "extractRelations", col |-> 0, row |-> 0]
      [] fn = "extractRelations" -> [fn |-> "extractIndexes", col |-> 0, row |-> 0]
      [] fn = "extractIndexes" -> [fn |-> "return", col |-> 0, row |-> 0]

\* for _, pk := range pkColumns { if pk == columnName { return false, nil } }
KeyColumn(d, pos) ==
    /\ pos.fn = "isColumnUnique"
    /\ d.cols[pos.col].name \in Range(PkOfTableInfo(d))

\* database/sql hands a query a free connection of the pool and opens a new one
\* when every connection is held by an open result set.
DrawConn(drawn, open) == IF Len(open) + 1 > drawn THEN Len(open) + 1 ELSE drawn

\* The state after the index_info rows of index idx were read as columns:
\* isColumnUnique returns true on a single-column match (the deferred Close of
\* the index_list rows runs), extractIndexes appends the index when it has
\* columns.
AfterIndexInfo(b, d, pos, part, open, idx, columns) ==
    IF pos.fn = "isColumnUnique"
    THEN IF Len(columns) = 1 /\ columns[1] = d.cols[pos.col].name
         THEN [rows |-> <<>>,
               partial |-> [part EXCEPT !.flags = Append(@, TRUE)],
               position |-> AfterColumn(b, d, pos.col)]
         ELSE [rows |-> <<open[1]>>, partial |-> part, position |-> pos]
    ELSE [rows |-> <<open[1]>>,
          partial |-> IF Len(columns) > 0
                      THEN [part EXCEPT !.indexes =
                              Append(@, [Name |-> idx.name, Columns |-> columns,
                                         IsUnique |-> idx.unique])]
                      ELSE part,
          position |-> pos]

\* The Table extractTable returns: on SQLite the uniqueness flags and the
\* indexes are the ones the lookups produced.
BuiltTable(b, cat, t, part) ==
    IF b = "sqlite"
    THEN [extractTable(b, cat, t) EXCEPT
            !.Columns = [i \in DOMAIN @ |-> [@[i] EXCEPT !.IsUnique = part.flags[i]]],
            !.Indexes = part.indexes]
    ELSE extractTable(b, cat, t)

InitQueries ==
    /\ backend \in Backends
    /\ catalog \in Catalogs \cup CompositeCatalogs(backend)
    /\ opts = [Tables |-> <<>>, ExcludeTables |-> <<>>]
    /\ pc = "extracting"
    /\ connOpen = TRUE
    /\ tableNames = getTableNames(catalog, opts.Tables)
    /\ extractedTables = <<>>
    /\ described = <<>>
    /\ schema = NilSchema
    /\ extracted = NilSchema
    /\ err = NoError
    /\ outOpts = NoOutput
    /\ files = <<>>
    /\ created = <<>>
    /\ resolved = NotResolved
    /\ sink = NoSink
    /\ flags = NoFlags
    /\ OutputFormat = ""
    /\ dirCreated = FALSE
    /\ dbIO = TRUE
    /\ writeFailed = FALSE
    /\ enumCol = NoEnum
    /\ closes = 0
    /\ openFiles = {}
    /\ rowsOpen = <<>>
    /\ connsDrawn = 1
    /\ position = Start
    /\ partial = NoPartial
    /\ ignored = <<>>

\* rows, err := ...Query(ctx, query, ...): the first query of a function
IssueQuery ==
    /\ Describing
    /\ position.fn # "return"
    /\ rowsOpen = <<>>
    /\ ~KeyColumn(Def(catalog, CurrentTable), position)
    /\ rowsOpen' = <<QueryOf(position.fn)>>
    /\ connsDrawn' = DrawConn(connsDrawn, rowsOpen)
    /\ UNCHANGED <<backend, catalog, opts, pc, connOpen, tableNames, extractedTables,
                   described, schema, extracted, err, outOpts, files, created, resolved,
                   sink, flags, OutputFormat, dirCreated, dbIO, writeFailed, enumCol,
                   closes, openFiles, position, partial, ignored>>

\* isColumnUnique on a primary-key column returns false without a query.
SkipKeyColumn ==
    /\ Describing
    /\ rowsOpen = <<>>
    /\ KeyColumn(Def(catalog, CurrentTable), position)
    /\ partial' = [partial EXCEPT !.flags = Append(@, FALSE)]
    /\ position' = AfterColumn(backend, Def(catalog, CurrentTable), position.col)
    /\ UNCHANGED <<backend, catalog, opts, pc, connOpen, tableNames, extractedTables,
                   described, schema, extracted, err, outOpts, files, created, resolved,
                   sink, flags, OutputFormat, dirCreated, dbIO, writeFailed, enumCol,
                   closes, openFiles, rowsOpen, connsDrawn, ignored>>

\* for rows.Next() { ... } ran to the end and the rows are closed; the function
\* returns its result.
CloseRows ==
    /\ Describing
    /\ Len(rowsOpen) = 1
    /\ ~HasLookups(backend, position.fn)
    /\ rowsOpen' = <<>>
    /\ position' = AfterCall(backend, Def(catalog, CurrentTable), position.fn)
    /\ UNCHANGED <<backend, catalog, opts, pc, connOpen, tableNames, extractedTables,
                   described, schema, extracted, err, outOpts, files, created, resolved,
                   sink, flags, OutputFormat, dirCreated, dbIO, writeFailed, enumCol,
                   closes, openFiles, connsDrawn, partial, ignored>>

\* The next row of index_list is an index the function does not look up.
NextIndexRow ==
    /\ Describing
    /\ Len(rowsOpen) = 1
    /\ HasLookups(backend, position.fn)
    /\ position.row < Len(Def(catalog, CurrentTable).indexes)
    /\ ~Qualifies(position.fn, Def(catalog, CurrentTable).indexes[position.row + 1])
    /\ position' = [position EXCEPT !.row = @ + 1]
    /\ UNCHANGED <<backend, catalog, opts, pc, connOpen, tableNames, extractedTables,
                   described, schema, extracted, err, outOpts, files, created, resolved,
                   sink, flags, OutputFormat, dirCreated, dbIO, writeFailed, enumCol,
                   closes, openFiles, rowsOpen, connsDrawn, partial, ignored>>

\* indexRows, err := e.client.GetDB().QueryContext(ctx, indexQuery), issued
\* inside for rows.Next() of the index_list rows
IssueIndexInfo ==
    /\ Describing
    /\ Len(rowsOpen) = 1
    /\ HasLookups(backend, position.fn)
    /\ position.row < Len(Def(catalog, CurrentTable).indexes)
    /\ Qualifies(position.fn, Def(catalog, CurrentTable).indexes[position.row + 1])
    /\ rowsOpen' = Append(rowsOpen, "index_info")
    /\ connsDrawn' = DrawConn(connsDrawn, rowsOpen)
    /\ position' = [position EXCEPT !.row = @ + 1]
    /\ UNCHANGED <<backend, catalog, opts, pc, connOpen, tableNames, extractedTables,
                   described, schema, extracted, err, outOpts, files, created, resolved,
                   sink, flags, OutputFormat, dirCreated, dbIO, writeFailed, enumCol,
                   closes, openFiles, partial, ignored>>

\* The index_info rows were read to the end: indexRows.Close()
CloseIndexInfo ==
    /\ Describing
    /\ Len(rowsOpen) = 2
    /\ LET d == Def(catalog, CurrentTable)
           after == AfterIndexInfo(backend, d, position, partial, rowsOpen,
                                   d.indexes[position.row], d.indexes[position.row].cols)
       IN  /\ rowsOpen' = after.rows
           /\ partial' = after.partial
           /\ position' = after.position
    /\ UNCHANGED <<backend, catalog, opts, pc, connOpen, tableNames, extractedTables,
                   described, schema, extracted, err, outOpts, files, created, resolved,
                   sink, flags, OutputFormat, dirCreated, dbIO, writeFailed, enumCol,
                   closes, openFiles, connsDrawn, ignored>>

\* The index_list rows were read to the end: isColumnUnique returns false,
\* extractIndexes returns the indexes.
CloseIndexList ==
    /\ Describing
    /\ Len(rowsOpen) = 1
    /\ HasLookups(backend, position.fn)
    /\ position.row = Len(Def(catalog, CurrentTable).indexes)
    /\ rowsOpen' = <<>>
    /\ partial' = IF position.fn = "isColumnUnique"
                  THEN [partial EXCEPT !.flags = Append(@, FALSE)]
                  ELSE partial
    /\ position' = IF position.fn = "isColumnUnique"
                   THEN AfterColumn(backend, Def(catalog, CurrentTable), position.col)
                   ELSE AfterCall(backend, Def(catalog, CurrentTable), position.fn)
    /\ UNCHANGED <<backend, catalog, opts, pc, connOpen, tableNames, extractedTables,
                   described, schema, extracted, err, outOpts, files, created, resolved,
                   sink, flags, OutputFormat, dirCreated, dbIO, writeFailed, enumCol,
                   closes, openFiles, connsDrawn, ignored>>

\* extractTable returns the Table; ExtractSchema appends it.
ReturnTable ==
    /\ Describing
    /\ position.fn = "return"
    /\ extractedTables' = Append(extractedTables,
                                 BuiltTable(backend, catalog, CurrentTable, partial))
    /\ described' = Append(described, CurrentTable)
    /\ position' = Start
    /\ partial' = NoPartial
    /\ UNCHANGED <<backend, catalog, opts, pc, connOpen, tableNames, schema, extracted,
                   err, outOpts, files, created, resolved, sink, flags, OutputFormat,
                   dirCreated, dbIO, writeFailed, enumCol, closes, openFiles, rowsOpen,
                   connsDrawn, ignored>>

\* The queries that can fail at this point with an error the function
\* returns: the query about to be issued, the result set being read (rows.Scan,
\* rows.Err), and in extractIndexes the index_info query and the Scan of its rows.
ReturnedFailures(b, d, pos, open) ==
    IF open = <<>> THEN {QueryOf(pos.fn)}
    ELSE IF Len(open) = 1
    THEN {open[1]}
         \cup (IF /\ HasLookups(b, pos.fn)
                  /\ pos.fn = "extractIndexes"
                  /\ pos.row < Len(d.indexes)
                  /\ Qualifies(pos.fn, d.indexes[pos.row + 1])
               THEN {"index_info"} ELSE {})
    ELSE IF pos.fn = "extractIndexes" THEN {"index_info"} ELSE {}

\* A query fails and the function returns the error: extractTable and
\* ExtractSchema wrap and return it, the deferred Close calls run.
QueryFails ==
    /\ Describing
    /\ position.fn # "return"
    /\ ~(rowsOpen = <<>> /\ KeyColumn(Def(catalog, CurrentTable), position))
    /\ \E q \in ReturnedFailures(backend, Def(catalog, CurrentTable), position, rowsOpen),
          c \in Causes :
          err' = Error("failed to extract table", CurrentTable, q, c)
    /\ described' = Append(described, CurrentTable)
    /\ schema' = ExtractSchemaOnError(extractedTables)
    /\ rowsOpen' = <<>>
    /\ connOpen' = FALSE
    /\ closes' = ClientClose(closes)
    /\ pc' = "failed"
    /\ UNCHANGED <<backend, catalog, opts, tableNames, extractedTables, extracted,
                   outOpts, files, created, resolved, sink, flags, OutputFormat,
                   dirCreated, dbIO, writeFailed, enumCol, openFiles, connsDrawn,
                   position, partial, ignored>>

\* isColumnUnique: the index_info query returns an error and indexRows.Close()
\* is called on the nil rows: the run panics, the deferred Close calls run.
IndexInfoQueryPanics ==
    /\ Describing
    /\ position.fn = "isColumnUnique"
    /\ Len(rowsOpen) = 1
    /\ position.row < Len(Def(catalog, CurrentTable).indexes)
    /\ Qualifies(position.fn, Def(catalog, CurrentTable).indexes[position.row + 1])
    /\ described' = Append(described, CurrentTable)
    /\ rowsOpen' = <<>>
    /\ connOpen' = FALSE
    /\ closes' = ClientClose(closes)
    /\ pc' = "panicked"
    /\ UNCHANGED <<backend, catalog, opts, tableNames, extractedTables, schema,
                   extracted, err, outOpts, files, created, resolved, sink, flags,
                   OutputFormat, dirCreated, dbIO, writeFailed, enumCol, openFiles,
                   connsDrawn, position, partial, ignored>>

\* Reading the index_info rows stops on an error after some of the columns:
\* isColumnUnique closes the rows and goes on (Scan) and neither function reads
\* indexRows.Err(); the columns read so far are used as the index's columns.
IndexInfoFailureIgnored ==
    /\ Describing
    /\ Len(rowsOpen) = 2
    /\ LET d == Def(catalog, CurrentTable)
           idx == d.indexes[position.row]
       IN  \E n \in 0..(Len(idx.cols) - 1) :
              LET after == AfterIndexInfo(backend, d, position, partial, rowsOpen,
                                          idx, SubSeq(idx.cols, 1, n))
              IN  /\ rowsOpen' = after.rows
                  /\ partial' = after.partial
                  /\ position' = after.position
    /\ ignored' = Append(ignored, [table |-> CurrentTable, query |-> "index_info",
                                   fn |-> position.fn])
    /\ UNCHANGED <<backend, catalog, opts, pc, connOpen, tableNames, extractedTables,
                   described, schema, extracted, err, outOpts, files, created, resolved,
                   sink, flags, OutputFormat, dirCreated, dbIO, writeFailed, enumCol,
                   closes, openFiles, connsDrawn>>

NextQueries ==
    \/ IssueQuery
    \/ SkipKeyColumn
    \/ CloseRows
    \/ NextIndexRow
    \/ IssueIndexInfo
    \/ CloseIndexInfo
    \/ CloseIndexList
    \/ ReturnTable
    \/ QueryFails
    \/ IndexInfoQueryPanics
    \/ IndexInfoFailureIgnored
    \/ ReturnSchema

SpecQueries == InitQueries /\ [][NextQueries]_vars

----------------------------------------------------------------------------
(* Properties *)

Returned == {"extracted", "filtered", "mkdir", "overview", "tables", "done"}

Filtered == {"filtered", "mkdir", "overview", "tables", "done"}

\* Positions (table i, relation j) of the Schema whose relation targets T.
IncomingPairs(T, tables) ==
    {p \in UNION {{<<i, j>> : j \in DOMAIN tables[i].Relations} : i \in DOMAIN tables} :
        tables[p[1]].Relations[p[2]].TargetTable = T}

LexLeq(p, q) == p[1] < q[1] \/ (p[1] = q[1] /\ p[2] <= q[2])

\* R lists exactly the pairs of IncomingPairs, each once, in (table, relation) order.
ExactlyIncoming(T, tables, R) ==
    LET P == IncomingPairs(T, tables)
    IN  /\ Len(R) = Cardinality(P)
        /\ \A p \in P :
              LET k == Cardinality({q \in P : LexLeq(q, p)})
                  r == tables[p[1]].Relations[p[2]]
              IN  R[k] = [SourceTable |-> tables[p[1]].Name,
                          SourceColumn |-> r.SourceColumn,
                          TargetTable |-> T,
                          TargetColumn |-> r.TargetColumn,
                          Cardinality |-> r.Cardinality]

\* C1: findIncomingRelations(T, S) returns exactly one IncomingRelation for each
\* (table, relation) of S whose relation targets T and nothing else, in S's table
\* order and, within one source table, in that table's relation order.
C1_IncomingExact ==
    /\ \A T \in Names : ExactlyIncoming(T, schema.Tables, findIncomingRelations(T, schema.Tables))
    /\ resolved.called => ExactlyIncoming(resolved.tableName, schema.Tables, resolved.rels)

\* writeTableFile resolved a table referenced by two relations of different
\* source tables and source columns.
C1_Witness ==
    /\ resolved.called
    /\ Len(resolved.rels) = 2
    /\ resolved.rels[1].SourceTable # resolved.rels[2].SourceTable
    /\ resolved.rels[1].SourceColumn # resolved.rels[2].SourceColumn

\* The line the documentation shows for an incoming relation A.c -> B.d.
ReadableReferencedBy(A, c, d, B, cardinality) ==
    <<"- ", A, ".", c, Arrow, d, " (">> \o FormatCardinality(cardinality, A, B) \o <<")">>

\* C2: in multi-file markdown output, for every relation A.c -> B.d the document
\* of B holds a "Referenced by" line "A.c -> d (many A to one B)".
C2_ReferencedByReadable ==
    \A i \in DOMAIN schema.Tables :
      \A j \in DOMAIN schema.Tables[i].Relations :
        LET A == schema.Tables[i].Name
            r == schema.Tables[i].Relations[j]
            fn == FileName(r.TargetTable, LibraryFormat)
        IN  fn \in DOMAIN files =>
              \E l \in DOMAIN files[fn] :
                 files[fn][l].text =
                    ReadableReferencedBy(A, r.SourceColumn, r.TargetColumn,
                                         r.TargetTable, r.Cardinality)

IsExclusionOf(R, O, E) ==
    LET keep == {i \in DOMAIN O : O[i].Name \notin Range(E)}
    IN  /\ Len(R) = Cardinality(keep)
        /\ \A i \in keep : R[Cardinality({j \in keep : j <= i})] = O[i]

\* C4: filterExcludedTables leaves the subsequence of the tables whose names are
\* not excluded, in their original order; unknown names change nothing, an empty
\* list changes nothing, excluding every table leaves the empty sequence.
C4_FilterSubsequence ==
    pc \in Filtered =>
       LET O == extracted.Tables
           E == opts.ExcludeTables
       IN  /\ IsExclusionOf(schema.Tables, O, E)
           /\ Len(E) = 0 => schema.Tables = O
           /\ Range(E) \cap Range(TableNamesOf(O)) = {} => schema.Tables = O
           /\ Range(TableNamesOf(O)) \subseteq Range(E) => schema.Tables = <<>>

\* The filter ran with a known and an unknown name and kept a table behind
\* a removed one.
C4_Witness ==
    /\ pc = "filtered"
    /\ \E n \in Range(opts.ExcludeTables) : n \notin Range(TableNamesOf(extracted.Tables))
    /\ Len(extracted.Tables) = 2
    /\ Len(schema.Tables) = 1
    /\ extracted.Tables[1].Name \in Range(opts.ExcludeTables)

\* Names of the tables rendered, in rendering order.
RenderedNames ==
    IF outOpts.OutputDir # ""
    THEN [i \in 1..(Len(created) - 1) |-> created[i + 1][1]]
    ELSE LET headers == SelectSeq(sink.doc, LAMBDA l : l.section = "header")
         IN  [i \in DOMAIN headers |-> headers[i].text[2]]

\* C5: with both Tables and ExcludeTables, only the tables of Tables are
\* extracted and the rendered tables are the names of Tables not in
\* ExcludeTables, in Tables order.
C5_TablesThenExclusions ==
    (pc = "done" /\ Len(opts.Tables) > 0 /\ Len(opts.ExcludeTables) > 0) =>
       /\ described = opts.Tables
       /\ RenderedNames = SelectSeq(opts.Tables, LAMBDA n : n \notin Range(opts.ExcludeTables))
       /\ \A n \in Range(opts.Tables) \cap Range(opts.ExcludeTables) :
             FileName(n, LibraryFormat) \notin DOMAIN files

\* Multi-file output ended with a name in both lists and another one rendered.
C5_Witness ==
    /\ pc = "done"
    /\ outOpts.OutputDir # ""
    /\ Len(created) = 2
    /\ Range(opts.Tables) \cap Range(opts.ExcludeTables) # {}

EmptyTable(n) ==
    [Name |-> n, Columns |-> <<>>, PrimaryKey |-> <<>>, Relations |-> <<>>, Indexes |-> <<>>]

C8_TableOrder ==
    pc = "extracted" =>
       LET names == TableNamesOf(schema.Tables)
       IN  IF Len(opts.Tables) = 0
           THEN /\ \A i, j \in DOMAIN names : i < j => Less(names[i], names[j])
                /\ Range(names) = DOMAIN catalog
           ELSE names = opts.Tables

\* An explicit list in descending order was extracted.
C8_Witness ==
    /\ pc = "extracted"
    /\ Len(opts.Tables) = 2
    /\ Less(opts.Tables[2], opts.Tables[1])
    /\ Len(schema.Tables) = 2

C10_UniqueTableNames ==
    /\ pc \in Returned =>
          \A i, j \in DOMAIN schema.Tables :
             i # j => schema.Tables[i].Name # schema.Tables[j].Name
    /\ \A i, j \in DOMAIN created : i # j => created[i] # created[j]

\* File names Format creates for the Schema, in creation order.
ExpectedFiles ==
    <<FileName(OverviewName, OutputFormat)>>
    \o [i \in DOMAIN schema.Tables |-> FileName(schema.Tables[i].Name, OutputFormat)]

\* C11: in multi-document mode the directory is created, then the overview, then
\* the per-table documents one at a time in Schema order; when creating the
\* destination of the k-th table fails, Format ends with an error naming that
\* table, no later document is created, nothing is retried, and the overview
\* and the documents of the first k-1 tables stay in place.
C11_AbortKeepsWritten ==
    outOpts.OutputDir # "" =>
       /\ created # <<>> => dirCreated
       /\ Len(created) <= Len(ExpectedFiles)
       /\ created = SubSeq(ExpectedFiles, 1, Len(created))
       /\ DOMAIN files = Range(created)
       /\ err.kind = "failed to write table file" =>
             LET k == Len(created)
             IN  /\ pc = "failed"
                 /\ k \in DOMAIN schema.Tables
                 /\ err.table = schema.Tables[k].Name
                 /\ files[ExpectedFiles[1]] \in
                       {OverviewDocument(st, OutputFormat) : st \in SortedCopies(schema.Tables)}
                 /\ \A i \in 1..(k - 1) :
                       files[ExpectedFiles[i + 1]] \in
                          {TableDocument(schema.Tables[j], schema.Tables, OutputFormat) :
                              j \in {n \in 1..(k - 1) :
                                        schema.Tables[n].Name = schema.Tables[i].Name}}

\* Creating the file of the second table failed after the first was written.
C11_Witness ==
    /\ err.kind = "failed to write table file"
    /\ Len(created) = 2
    /\ err.table # schema.Tables[1].Name
    /\ FileName(schema.Tables[1].Name, OutputFormat) \in DOMAIN files

\* C12: a failed write to the single-document sink, to the overview file or to
\* a per-table file is fatal: the formatter ends with a non-nil error and
\* performs no further writes.
C12_WriteFailureFatal == writeFailed => pc = "failed" /\ err # NoError

\* C13: with both --output and --output-dir set the run fails with a
\* configuration error detected before any I/O: no database connection, no
\* metadata query, no file and no directory.
C13_ConflictBeforeIO ==
    (flags.outputDir # "" /\ flags.outputFile # "") =>
       /\ ~dbIO
       /\ tableNames = <<>> /\ described = <<>>
       /\ files = <<>> /\ ~dirCreated
       /\ pc \in {"start", "failed"}
       /\ pc = "failed" => err.kind = "cannot use both --output-dir and --output flags"

\* C14: a format other than text or markdown is a fatal configuration error in
\* single-document and in multi-document mode, detected before any output I/O:
\* no file is created or truncated, no directory is created, nothing is written
\* in a fallback rendering.
C14_UnsupportedFormatFatal ==
    (flags # NoFlags /\ flags.format \notin {"text", "markdown"}) =>
       /\ files = <<>>
       /\ created = <<>>
       /\ ~dirCreated
       /\ sink = NoSink
       /\ pc # "done"

\* Names of the tables a single document renders, in document order.
TablesRendered(doc) ==
    LET headers == SelectSeq(doc, LAMBDA l : l.section = "header")
    IN  [i \in DOMAIN headers |-> headers[i].text[2]]

\* C19: single-document mode writes to the one sink a title followed by the
\* rendering of every table of the Schema, each once and in Schema order, in
\* the text and in the markdown rendering.
C19_SingleDocumentTitleAndTables ==
    (pc = "done" /\ flags.outputDir = "") =>
       /\ Len(sink.doc) >= 1
       /\ sink.doc[1].section = "title"
       /\ TablesRendered(sink.doc) = TableNamesOf(schema.Tables)

\* C15: FormatSchema with both OutputDir and Writer set performs multi-file
\* output only (nothing reaches the Writer, the combination is no error); with
\* neither set, or with nil options, it writes the single document to standard
\* output.
C15_OutputDirPrecedence ==
    /\ outOpts.OutputDir # "" =>
          /\ sink = NoSink
          /\ err.kind \in {"nil", "failed to create output directory",
                            "failed to write overview", "failed to write table file"}
          /\ pc = "done" => DOMAIN files = Range(ExpectedFiles) /\ err = NoError
    /\ (pc = "done" /\ outOpts.OutputDir = "") =>
          /\ files = <<>> /\ created = <<>> /\ ~dirCreated
          /\ err = NoError
          /\ sink.doc = SingleDocument(schema.Tables)
          /\ sink.writer = IF outOpts.Writer = "buf" THEN "buf" ELSE "stdout"

\* A run with both OutputDir and Writer set completed with its files written.
C15_Witness ==
    /\ pc = "done"
    /\ outOpts.OutputDir # ""
    /\ outOpts.Writer = "buf"
    /\ Len(schema.Tables) >= 1
    /\ Len(created) = Len(schema.Tables) + 1

\* Table names the overview lists, in document order.
OverviewNames(doc, format) ==
    LET lines == SelectSeq(doc, LAMBDA l : l.section = "Tables")
    IN  [i \in DOMAIN lines |->
            IF format = "markdown" THEN lines[i].text[2] ELSE lines[i].text[1]]

Occurrences(n, names) == Cardinality({i \in DOMAIN names : names[i] = n})

\* C16: the overview lists every table of the Schema exactly once, in ascending
\* order of table name whatever the Schema's own order, and writing it leaves
\* Schema.Tables as it was: the per-table documents follow in the original
\* Schema order.
C16_OverviewSorted ==
    (created # <<>> /\ ~writeFailed) =>
       LET names == OverviewNames(files[created[1]], OutputFormat)
           original == filterExcludedTables(extracted.Tables, opts.ExcludeTables)
       IN  /\ created[1] = FileName(OverviewName, OutputFormat)
           /\ Len(names) = Len(schema.Tables)
           /\ \A n \in Range(NameOrder) :
                 Occurrences(n, names) = Occurrences(n, TableNamesOf(schema.Tables))
           /\ \A i, j \in DOMAIN names : i < j => ~Less(names[j], names[i])
           /\ schema.Tables = original
           /\ \A i \in 2..Len(created) :
                 created[i] = FileName(original[i - 1].Name, OutputFormat)

\* The overview and the documents of a Schema in descending name order were
\* written.
C16_Witness ==
    /\ pc = "done"
    /\ Len(created) = 3
    /\ Less(schema.Tables[2].Name, schema.Tables[1].Name)
    /\ OverviewNames(files[created[1]], OutputFormat) # TableNamesOf(schema.Tables)

\* Target names of the "(refs: ...)" annotation of an overview line.
AnnotationTargets(line) ==
    LET at == {i \in DOMAIN line.text : line.text[i] = " (refs: "}
    IN  IF at = {} THEN <<>>
        ELSE SelectSeq(SubSeq(line.text, (CHOOSE i \in at : TRUE) + 1, Len(line.text)),
                       LAMBDA x : x \in Range(NameOrder))

\* C17: in the overview each table is annotated with the distinct names of the
\* tables it references: a target of several relations of one table appears
\* once, and a table without relations has no annotation.
C17_OverviewDistinctTargets ==
    (created # <<>> /\ ~writeFailed) =>
       LET doc == files[created[1]]
       IN  \A l \in DOMAIN doc :
              doc[l].section = "Tables" =>
                 LET targets == AnnotationTargets(doc[l])
                 IN  /\ \A i, j \in DOMAIN targets : i # j => targets[i] # targets[j]
                     /\ \E t \in DOMAIN schema.Tables :
                           /\ schema.Tables[t].Name \in Range(doc[l].text)
                           /\ Range(targets) =
                                 {schema.Tables[t].Relations[r].TargetTable :
                                     r \in DOMAIN schema.Tables[t].Relations}

\* C18: the overview path differs from every per-table path, so after Format
\* completes the overview written first is still the overview.
C18_OverviewNotOverwritten ==
    (pc = "done" /\ outOpts.OutputDir # "") =>
       /\ \A i \in DOMAIN schema.Tables :
             FileName(schema.Tables[i].Name, OutputFormat) # FileName(OverviewName, OutputFormat)
       /\ files[FileName(OverviewName, OutputFormat)] \in
             {OverviewDocument(st, OutputFormat) : st \in SortedCopies(schema.Tables)}

\* C20: Column.EnumValues equals the declared literal list of the type: same
\* length, same literals, declared order; for MySQL this holds for every list
\* encoded in enum('v1','v2',...), literals with commas, spaces or quotes
\* included.
C20_EnumRoundTrip == enumCol.parsed => enumCol.EnumValues = enumCol.declared

\* C21: FormatCardinality renders "N:1" as "many {source} to one {target}", "1:N" as
\* "one {source} to many {target}", "1:1" as "one {source} to one {target}" and every
\* other tag verbatim: the References line of each relation of the single document
\* carries exactly that description.
C21_CardinalityRendering ==
    pc = "done" =>
      \A i \in DOMAIN schema.Tables :
        \A j \in DOMAIN schema.Tables[i].Relations :
          LET source == schema.Tables[i].Name
              rel == schema.Tables[i].Relations[j]
              target == rel.TargetTable
              description ==
                  IF rel.Cardinality = "N:1" THEN <<"many ", source, " to one ", target>>
                  ELSE IF rel.Cardinality = "1:N" THEN <<"one ", source, " to many ", target>>
                  ELSE IF rel.Cardinality = "1:1" THEN <<"one ", source, " to one ", target>>
                  ELSE <<rel.Cardinality>>
          IN  \E l \in DOMAIN sink.doc :
                 /\ sink.doc[l].section = "References"
                 /\ sink.doc[l].text =
                        <<"- ", rel.SourceColumn, Arrow, target, ".", rel.TargetColumn, " (">>
                        \o description \o <<")">>

C21_Witness ==
    /\ pc = "done"
    /\ Len(schema.Tables) = 1
    /\ Len(schema.Tables[1].Relations) = 1
    /\ schema.Tables[1].Relations[1].Cardinality = "N:M"
    /\ \E l \in DOMAIN sink.doc : sink.doc[l].text =
          <<"- ", "user_id", Arrow, "users", ".", "id", " (", "N:M", ")">>

\* C22: the exclusion filter is idempotent (a second call with the same list leaves
\* the Tables the first call produced) and a list that carries one more name, a
\* name it already holds or a name of no table, gives the Tables of the list
\* without that name.
C22_FilterIdempotent ==
    /\ pc = "refiltered" => schema.Tables = extracted.Tables
    /\ pc = "filtered one more" =>
          LET n == opts.ExcludeTables[Len(opts.ExcludeTables)]
          IN  (n \in Range(tableNames) \/ n \notin Range(TableNamesOf(extracted.Tables)))
              => schema.Tables = filterExcludedTables(extracted.Tables, tableNames)

C22_Witness ==
    /\ pc = "refiltered"
    /\ opts.ExcludeTables = <<"orders", "orders">>
    /\ TableNamesOf(schema.Tables) = <<"users">>
    /\ schema = extracted

\* The definition of an extracted table in the database.
Declared(name) == Def(catalog, name)

\* C24: on every backend a Column's IsUnique flag is set exactly when the column
\* is the only column of a UNIQUE constraint of its table and is not the primary
\* key; a column of a multi-column UNIQUE constraint only is not flagged.
C24_UniqueFlagSingleColumn ==
    \A i \in DOMAIN extractedTables :
      \A j \in DOMAIN extractedTables[i].Columns :
        LET col == extractedTables[i].Columns[j]
            d == Declared(extractedTables[i].Name)
        IN  col.IsUnique <=>
              /\ \E u \in DOMAIN d.uniques : d.uniques[u] = <<col.Name>>
              /\ d.pk # <<col.Name>>

\* C25: Table.Indexes holds every index of the table but the one that backs the
\* primary key, each with a non-empty column list drawn from the table's columns.
C25_IndexesButPrimaryKey ==
    \A i \in DOMAIN extractedTables :
      LET d == Declared(extractedTables[i].Name)
          expected == SelectSeq(d.indexes, LAMBDA x : x.origin # "pk")
      IN  /\ extractedTables[i].Indexes =
                [k \in DOMAIN expected |->
                    [Name |-> expected[k].name, Columns |-> expected[k].cols,
                     IsUnique |-> expected[k].unique]]
          /\ \A k \in DOMAIN extractedTables[i].Indexes :
                /\ extractedTables[i].Indexes[k].Columns # <<>>
                /\ Range(extractedTables[i].Indexes[k].Columns)
                      \subseteq Range([c \in DOMAIN d.cols |-> d.cols[c].name])

\* C26: Table.Relations holds exactly one Relation per foreign-key column pair of
\* the table, in pair order, with cardinality N:1 and a source column of the table.
C26_RelationPerColumnPair ==
    \A i \in DOMAIN extractedTables :
      LET d == Declared(extractedTables[i].Name)
      IN  /\ extractedTables[i].Relations =
                [k \in DOMAIN d.fks |->
                    [TargetTable |-> d.fks[k].refTable, TargetColumn |-> d.fks[k].refCol,
                     SourceColumn |-> d.fks[k].col, Cardinality |-> "N:1"]]
          /\ \A k \in DOMAIN extractedTables[i].Relations :
                extractedTables[i].Relations[k].SourceColumn
                   \in Range([c \in DOMAIN d.cols |-> d.cols[c].name])

\* The indexes of a table that do not restate the uniqueness flag of a column:
\* all but the unique indexes on exactly one column whose Column has IsUnique.
NotRestated(table) ==
    SelectSeq(table.Indexes, LAMBDA idx :
        ~(idx.IsUnique /\ Len(idx.Columns) = 1
          /\ \E c \in DOMAIN table.Columns :
                table.Columns[c].Name = idx.Columns[1] /\ table.Columns[c].IsUnique))

\* The index names a document lists in a section, and the section's headings.
IndexNamesListed(doc, section) ==
    LET lines == SelectSeq(doc, LAMBDA l : l.section = section /\ Len(l.text) > 1)
    IN  [k \in DOMAIN lines |-> lines[k].text[2]]

IndexHeadings(doc, section) ==
    Len(SelectSeq(doc, LAMBDA l : l.section = section /\ Len(l.text) = 1))

\* C27: the markdown rendering of a table lists exactly the indexes that do not
\* restate a column's uniqueness flag, once each and in index order, under a
\* heading that is left out when none remains; in the single document and in
\* the per-table documents of the multi-file output alike.
C27_IndexSuppression ==
    /\ (pc = "done" /\ sink.writer # "") =>
          /\ IndexNamesListed(sink.doc, "Index") =
                Flatten([i \in DOMAIN schema.Tables |->
                           [k \in DOMAIN NotRestated(schema.Tables[i]) |->
                               NotRestated(schema.Tables[i])[k].Name]])
          /\ IndexHeadings(sink.doc, "Index") =
                Cardinality({i \in DOMAIN schema.Tables : NotRestated(schema.Tables[i]) # <<>>})
    /\ (pc = "done" /\ sink.writer = "") =>
          \A i \in DOMAIN schema.Tables :
             LET doc == files[FileName(schema.Tables[i].Name, LibraryFormat)]
                 kept == NotRestated(schema.Tables[i])
             IN  /\ IndexNamesListed(doc, "Idx") = [k \in DOMAIN kept |-> kept[k].Name]
                 /\ IndexHeadings(doc, "Idx") = IF kept # <<>> THEN 1 ELSE 0

\* C28: the exclusion filter removes whole tables and nothing else. Every
\* remaining Table is the Table ExtractSchema returned, Relations to excluded
\* tables included; so in multi-file output a remaining table that references
\* an excluded table X still names X in its overview annotation and in its
\* References list, no document of X exists, and X is the source of no
\* "Referenced by" line.
C28_FilterFrame ==
    /\ pc \in Filtered =>
          schema.Tables = SelectSeq(extracted.Tables,
                                    LAMBDA t : t.Name \notin Range(opts.ExcludeTables))
    /\ (pc = "done" /\ outOpts.OutputDir # "") =>
          /\ \A X \in Range(opts.ExcludeTables) :
                /\ FileName(X, LibraryFormat) \notin DOMAIN files
                /\ \A fn \in DOMAIN files : \A l \in DOMAIN files[fn] :
                      files[fn][l].section = "Referenced by" /\ Len(files[fn][l].text) > 1
                         => files[fn][l].text[2] # X
          /\ \A i \in DOMAIN extracted.Tables :
                LET T == extracted.Tables[i]
                IN  T.Name \notin Range(opts.ExcludeTables) =>
                      \A r \in DOMAIN T.Relations :
                         /\ \E l \in DOMAIN files[FileName(OverviewName, LibraryFormat)] :
                               LET line == files[FileName(OverviewName, LibraryFormat)][l]
                               IN  /\ line.section = "Tables"
                                   /\ line.text[2] = T.Name
                                   /\ T.Relations[r].TargetTable \in Range(AnnotationTargets(line))
                         /\ \E l \in DOMAIN files[FileName(T.Name, LibraryFormat)] :
                               LET line == files[FileName(T.Name, LibraryFormat)][l]
                               IN  /\ line.section = "References"
                                   /\ line.text = <<"- ", T.Relations[r].SourceColumn, Arrow,
                                                    T.Relations[r].TargetTable, ".",
                                                    T.Relations[r].TargetColumn,
                                                    " (", T.Relations[r].Cardinality, ")">>

\* Multi-file output ended with users excluded and orders, which references
\* users, rendered.
C28_Witness ==
    /\ pc = "done"
    /\ outOpts.OutputDir # ""
    /\ opts.ExcludeTables = <<"users">>
    /\ \E i \in DOMAIN schema.Tables :
          /\ schema.Tables[i].Name = "orders"
          /\ \E r \in DOMAIN schema.Tables[i].Relations :
                schema.Tables[i].Relations[r].TargetTable = "users"
    /\ FileName("orders", LibraryFormat) \in DOMAIN files
    /\ FileName("users", LibraryFormat) \notin DOMAIN files

\* C30: every scoped resource is released on every path. The connection
\* ExtractSchema opened is closed exactly once when ExtractSchema has returned,
\* with a Schema or with an error; a client whose ping failed was closed by its
\* constructor and no metadata query was issued; and an output file is closed
\* before the next one is created, also when Format stops on an error.
C30_ResourcesReleased ==
    /\ closes <= 1
    /\ connOpen => (closes = 0 /\ pc \in {"connected", "extracting"})
    /\ (pc \in Returned \cup {"panicked"}
        \/ (pc = "failed" /\ err.kind # "failed to connect")) =>
          (~connOpen /\ closes = 1 /\ rowsOpen = <<>>)
    /\ err.kind = "failed to connect" =>
          /\ ~connOpen
          /\ closes = IF err.query = "ping" THEN 1 ELSE 0
          /\ tableNames = <<>> /\ described = <<>> /\ extractedTables = <<>>
    /\ Cardinality(openFiles) <= 1
    /\ pc \in {"tables", "done", "failed"} => openFiles = {}

\* Multi-file output ended after the overview and two table files were written.
C30_Witness ==
    /\ pc = "done"
    /\ outOpts.OutputDir # ""
    /\ Len(created) = 3
    /\ closes = 1
    /\ ~connOpen
    /\ openFiles = {}

\* C23: the failure of any metadata query issued while a table is described
\* ends ExtractSchema at once with an error that names the table: no failure is
\* passed over, the run does not end in any other way, and no Schema is returned.
C23_QueryFailureSurfaces ==
    /\ ignored = <<>>
    /\ pc # "panicked"
    /\ err.kind = "failed to extract table" =>
          /\ pc = "failed"
          /\ err.table = tableNames[Len(extractedTables) + 1]
          /\ schema = NilSchema

\* C29: extraction is sequential over one connection: at most one result set
\* is open at any moment, so every result set is closed before the next query
\* is issued, the tables are described in the order of the name list, and the
\* client draws no second connection.
C29_OneResultSetOpen ==
    /\ Len(rowsOpen) <= 1
    /\ connsDrawn <= 1
    /\ described = SubSeq(tableNames, 1, Len(described))

====
